---------------------------- MODULE Spec2Model ----------------------------
(***************************************************************************)
(* A model of the lamp library of synchronization primitives.              *)
(*                                                                         *)
(* Every lock is driven by the loop of its MutualExclusion test: a thread  *)
(* repeats  lock(); prev = counter; counter++; unlock()  a fixed number of *)
(* times.  One step of the model is one access to shared memory; atomics   *)
(* are sequentially consistent.  A queue node that lives in thread-local   *)
(* storage is named by the thread that owns it; 0 is the null pointer.     *)
(***************************************************************************)
EXTENDS Integers, Sequences, FiniteSets, TLC

VARIABLES
  lockKind,     \* the lock under test; constant along a behaviour
  pc,           \* pc[t]: where thread t is in the test loop / lock code
  numIter,      \* kNumIterations of the test; constant along a behaviour
  iter,         \* iter[t]: loop iterations thread t has finished
  counter,      \* the test's shared counter
  prev,         \* prev[t]: the counter value thread t read in the critical section
  fifo_queue,   \* history: threads in the order of their queue-entry step
  mcs_tail, mcs_locked, mcs_next, mcs_pred, mcs_succ,      \* MCSLock
  tk_next_ticket, tk_now_serving, tk_my_ticket,            \* TicketLock
  clh_tail, clh_locked, clh_my_node, clh_my_pred,          \* CLHLock
  pt_flag, pt_victim,                                      \* PetersonLock
  fl_level, fl_victim, fl_i, fl_k,                         \* FilterLock
  al_kSize, al_flags, al_tail, al_slot,                    \* ALock
  to_tail, to_pred, to_nalloc, to_my_node, to_my_pred,     \* TOLock
  to_result,    \* to_result[t]: what the last try_lock of thread t returned
  cl_kSize,     \* kSize of the CompositeLock: the slots of waiting_ in use
  cl_state, cl_pred, cl_tail, cl_my_node,                  \* CompositeLock
  cl_node, cl_seen, cl_cur, cl_mypred, cl_temp, \* locals of its try_lock
  rw_num_readers, rw_has_writer,                \* the read/write locks
  ttas_state,   \* state_ of the TTASLock mutex_ that guards them
  cv_waiters, cv_signal, cv_to_notify,          \* ConditionVariable
  cv_ret,       \* cv_ret[t]: where thread t continues after wait / notify_all
  re_owner, re_hold_count,                      \* ReentrantLock
  re_depth,     \* re_depth[t]: lock() calls of t that returned, less its unlocks
  re_threw,     \* re_threw[t]: the last unlock() of t threw
  cvt_queue,    \* size of the shared queue of the ConditionVariable stress test
  cv_signaled,  \* cv_signaled[t]: local `signaled` of t's wait_until
  cv_erased,    \* cv_erased[t]: t's wait_until found its signal on waiters_
  cv_status,    \* cv_status[t]: what the last wait_until of t returned
  sem_value,    \* Semaphore::value_
  sem_init,     \* the value the Semaphore was constructed with
  sem_result,   \* sem_result[t]: what the last acquiring call of t returned
  sem_acquired, \* history: permits taken by calls that returned success
  sem_released, \* history: permits given back by release calls
  ls_key, ls_next, ls_marked, ls_lock,          \* the nodes of a list: key_, next_, mark, mutex_
  ls_garbage, ls_next_deleted, ls_nalloc,       \* garbage_list_, next_deleted_, nodes allocated
  ls_op, ls_k,  \* ls_op[t], ls_k[t]: the method thread t is in and the key of its item
  ls_pred, ls_curr, ls_succ, ls_node,           \* locals of the list methods
  ls_ret,       \* ls_ret[t]: what the last list method of t returned
  ls_in,        \* history: the key of t's call was in the set at some instant of the call
  ls_out,       \* history: the key of t's call was not in the set at some instant of the call
  ls_net,       \* history: ls_net[k] = successful add(k) less successful remove(k)
  bl_kind,      \* the list class of the single-threaded boundary test
  bl_list,      \* its nodes from head_ on: the sequence of their key_
  bl_op, bl_hash, bl_ret,   \* the last call: method, hash of its item, value returned
  bl_empty,     \* history: the list held no item when the last call began
  q_value, q_next,          \* the nodes of a queue: value_, next_
  q_head, q_tail,           \* head_, tail_
  q_nalloc, q_nval,         \* nodes allocated, values handed to enqueue so far
  q_garbage,                \* the nodes on garbage_list_
  q_nstamp, q_stamps,       \* stamps: of next_ of a node; of head_, tail_, unused_nodes_
  q_pool,                   \* unused_nodes_ of the NodePool
  q_rets,                   \* the values the dequeues have returned, in the order of the returns
  q_mutex,                  \* enq_mutex_ and deq_mutex_ of the queues with locks: held or not
  q_size,                   \* size_ of the BoundedQueue
  q_waiters,                \* waiters_ of not_full_condition_ and of not_empty_condition_
  q_signal, q_to_notify,    \* the signal of a waiter, the to_notify of a notifier
  sq_item,                  \* item_ of the SynchronousQueue (0: no value)
  sq_enqueuing,             \* enqueuing_ of the SynchronousQueue
  sq_published,             \* the values enqueuers stored in item_, in order
  sq_consumed,              \* the values dequeuers took out of item_, in order
  es_value, es_next,        \* value_ and next_ of the nodes of the EliminationBackoffStack
  es_top,                   \* top_
  es_nalloc, es_nval,       \* nodes allocated so far, values handed to push so far
  es_garbage,               \* garbage_list_, the last node chained first
  es_slot,                  \* slot_ of every LockFreeExchanger: pointer and stamp
  es_owner,                 \* the thread that put a slot in state WAITING
  es_op, es_loc, es_ret,    \* per thread: the call, its locals, what it returned
  es_rets,                  \* the values the pops have returned, in the order of the returns
  es_abs,                   \* the stack the calls that took effect have built, top last
  es_pushed, es_popped,     \* the values pushed and popped, in the order of taking effect
  es_taken,                 \* es_taken[t]: what the stack gave the pop of t when it took effect
  ex_paired, ex_given,      \* per thread: a partner met its exchange; the item it brought
  ex_result,                \* per thread: how its last exchange ended
  asp_ptr, asp_stamp,       \* ptr_ and stamp_ of the atomic_stamped_ptr_ under test
  asp_obs,                  \* per thread: the pair its last get returned
  asp_updates,              \* per thread: successful compare_and_swap calls since that get
  asp_ops,                  \* compare_and_swap calls so far
  asp_last,                 \* the last compare_and_swap: arguments, value before and after, result
  hp_head,                  \* HazardPtr: the thread contexts from head_ along next_
  hp_reservations,          \* per thread: reservations_ of its context
  hp_pending_reclaims,      \* per thread: the nodes of pending_reclaims_, in order
  hp_loc,                   \* per thread: locals of the HazardPtr call it is in
  hp_deleted,               \* history: per node, how often op_end has deleted it
  hp_held,                  \* history: per thread, the slots that have held its candidate since is_unreserved began
  q_op, q_loc, q_ret,       \* of thread t: its method, its locals, what the method returned
  q_enq,        \* history: the values enqueued, in the order the enqueues took effect
  q_deq,        \* history: the values dequeued, in the order the dequeues took effect
  q_taken,      \* history: the value at the front when the dequeue of t took effect
  q_emp         \* history: the queue held no item at some instant of the call of t

harnessVars == <<lockKind, numIter, pc, iter, counter, prev, fifo_queue>>
mcsVars == <<mcs_tail, mcs_locked, mcs_next, mcs_pred, mcs_succ>>
tkVars == <<tk_next_ticket, tk_now_serving, tk_my_ticket>>
clhVars == <<clh_tail, clh_locked, clh_my_node, clh_my_pred>>
ptVars == <<pt_flag, pt_victim>>
flVars == <<fl_level, fl_victim, fl_i, fl_k>>
alVars == <<al_kSize, al_flags, al_tail, al_slot>>
toVars == <<to_tail, to_pred, to_nalloc, to_my_node, to_my_pred, to_result>>
clVars == <<cl_kSize, cl_state, cl_pred, cl_tail, cl_my_node, cl_node, cl_seen, cl_cur,
            cl_mypred, cl_temp>>
rwVars == <<rw_num_readers, rw_has_writer, ttas_state, cv_waiters, cv_signal,
            cv_to_notify, cv_ret>>
reVars == <<re_owner, re_hold_count, re_depth, re_threw>>
cvuVars == <<cv_signaled, cv_erased, cv_status>>
semVars == <<sem_value, sem_init, sem_result, sem_acquired, sem_released>>
syVars == <<cvt_queue, cvuVars, semVars>>
lsHeap == <<ls_key, ls_next, ls_marked, ls_lock, ls_garbage, ls_next_deleted,
            ls_nalloc>>
lsLocals == <<ls_op, ls_k, ls_pred, ls_curr, ls_succ, ls_node, ls_ret>>
lsVars == <<lsHeap, lsLocals, ls_in, ls_out, ls_net>>
blVars == <<bl_kind, bl_list, bl_op, bl_hash, bl_ret, bl_empty>>
\* The containers that came after the locks and the concurrent lists.
qHeap == <<q_value, q_next, q_head, q_tail, q_nalloc, q_nval, q_garbage>>
qRecycle == <<q_nstamp, q_stamps, q_pool>>
qLock == <<q_mutex, q_size, q_waiters, q_signal, q_to_notify>>
qHist == <<q_enq, q_deq, q_taken, q_emp>>
qVars == <<qHeap, qRecycle, qLock, q_op, q_loc, q_ret, q_rets, qHist>>
sqVars == <<sq_item, sq_enqueuing, sq_published, sq_consumed>>
esHeap == <<es_value, es_next, es_top, es_nalloc, es_nval, es_garbage>>
esHist == <<es_abs, es_pushed, es_popped, es_taken>>
exVars == <<es_slot, es_owner, ex_paired, ex_given, ex_result>>
esVars == <<esHeap, exVars, es_op, es_loc, es_ret, es_rets, esHist>>
aspVars == <<asp_ptr, asp_stamp, asp_obs, asp_updates, asp_ops, asp_last>>
hpVars == <<hp_head, hp_reservations, hp_pending_reclaims, hp_loc, hp_deleted, hp_held>>
others_Q == <<sqVars, esVars, aspVars, hpVars>>
dsVars == <<blVars, qVars, others_Q>>

lockVars == <<mcsVars, tkVars, clhVars, ptVars, flVars, alVars, toVars, clVars,
              rwVars, reVars, syVars, lsVars, dsVars>>
vars == <<harnessVars, lockVars>>

\* What an action of one lock leaves alone: the state of every other lock.
others_MCS == <<tkVars, clhVars, ptVars, flVars, alVars, toVars, clVars,
  rwVars, reVars, syVars, lsVars, dsVars>>
others_Ticket == <<mcsVars, clhVars, ptVars, flVars, alVars, toVars, clVars,
  rwVars, reVars, syVars, lsVars, dsVars>>
others_CLH == <<mcsVars, tkVars, ptVars, flVars, alVars, toVars, clVars,
  rwVars, reVars, syVars, lsVars, dsVars>>
others_Peterson == <<mcsVars, tkVars, clhVars, flVars, alVars, toVars, clVars,
  rwVars, reVars, syVars, lsVars, dsVars>>
others_Filter == <<mcsVars, tkVars, clhVars, ptVars, alVars, toVars, clVars,
  rwVars, reVars, syVars, lsVars, dsVars>>
others_ALock == <<mcsVars, tkVars, clhVars, ptVars, flVars, toVars, clVars,
  rwVars, reVars, syVars, lsVars, dsVars>>
others_TOLock == <<mcsVars, tkVars, clhVars, ptVars, flVars, alVars, clVars,
  rwVars, reVars, syVars, lsVars, dsVars>>
others_Composite == <<mcsVars, tkVars, clhVars, ptVars, flVars, alVars, toVars,
  rwVars, reVars, syVars, lsVars, dsVars>>
others_RW == <<mcsVars, tkVars, clhVars, ptVars, flVars, alVars, toVars, clVars,
  reVars, syVars, lsVars, dsVars>>
others_Sync == <<mcsVars, tkVars, clhVars, ptVars, flVars, alVars, toVars, clVars,
  reVars, lsVars, dsVars>>
others_List == <<mcsVars, tkVars, clhVars, ptVars, flVars, alVars, toVars, clVars,
  rwVars, reVars, syVars, dsVars>>
\* What an action of a container leaves alone of the locks and the lists.
others_DS == <<mcsVars, tkVars, clhVars, ptVars, flVars, alVars, toVars, clVars,
  rwVars, reVars, syVars, lsVars>>
\* The clients of the ConditionVariable share the state of it and of mutex_.
others_CV == <<mcsVars, tkVars, clhVars, ptVars, flVars, alVars, toVars, clVars,
  syVars, lsVars, dsVars>>

(***************************************************************************)
(* Bounds of the model.                                                    *)
(***************************************************************************)
NumThreads == 2       \* threads of a lock test
NumIterations == 2    \* iterations of the test loop, per thread
FairIterations == 2   \* iterations in the specification with fairness
TOMaxNodes == 4       \* nodes TOLock::try_lock may allocate in a behaviour
CLThreads == 2        \* threads of the CompositeLock test
CLSize == 2           \* slots of the CompositeLock
CLIterations == 2     \* iterations of the CompositeLock test, per thread
RWNumThreads == 2     \* threads of the read/write lock test
RWIterations == 2     \* iterations of the read/write lock test, per thread
CVIterations == 2       \* rounds of each thread of the ConditionVariable test
CVONumThreads == 3      \* threads of the notify_one test
CVOIterations == 1      \* rounds of each thread of the notify_one test
SemMaxInit == 2         \* largest initial value of the Semaphore
SemIterations == 1      \* operations of each thread of the Semaphore test
LThreads == 2           \* threads that use a list
LOps == 2               \* list methods each of them calls
LMaxKey == 3            \* the keys of the items are 1..LMaxKey
LInitial == 2           \* the list starts with the keys 1..LInitial
RECalls == 3          \* calls of lock() / unlock() a thread makes on the ReentrantLock
BLKeyBits == 2          \* width of size_t in the boundary test of the lists
BLMaxItems == 2         \* items the list of the boundary test may hold
QNumThreads == 2        \* threads that use a queue
QOps == 2               \* queue methods each of them calls
QInitial == 1           \* items in the queue when the threads start
BQCapacity == 2         \* capacity_ of the BoundedQueue
BQSizeBits == 3         \* width of size_ in the model (size_t in the code)
SQNumThreads == 3       \* threads of the SynchronousQueue test
ESNumThreads == 3       \* threads of the EliminationBackoffStack test
ESOps == 1              \* calls of push or pop of each of them
ESInitial == 1          \* items on the stack when the threads start
ESCapacity == 1         \* exchangers of the elimination array
ASPNumThreads == 2      \* threads that use the AtomicStampedPtr
ASPNumPtrs == 3         \* pointers A, B, C of the AtomicStampedPtr test
ASPStampBits == 2       \* width of a stamp in the model (uint64_t in the code)
ASPMaxOps == 3          \* compare_and_swap calls in a run
HPNumThreads == 2       \* threads that use the HazardPtr
HPNumSlots == 2         \* reservations per thread (num of register_thread)
HPNumNodes == 2         \* nodes the threads reserve and retire
HPOps == 3              \* HazardPtr calls per thread, register_thread apart

SemCount == 2           \* the count of try_acquire(2) / release(2) in the Semaphore test
Null == 0

Threads == 1..NumThreads

-----------------------------------------------------------------------------
(***************************************************************************)
(* The test loop around a lock (critical_section lambda of the tests).     *)
(***************************************************************************)

\* State of the harness when the threads are started.
HarnessInit(kind, T, n) ==
  /\ lockKind = kind
  /\ numIter = n
  /\ pc = [t \in T |-> "idle"]
  /\ iter = [t \in T |-> 0]
  /\ counter = 0
  /\ prev = [t \in T |-> 0]
  /\ fifo_queue = <<>>

\* Where the loop goes once an iteration has ended: the next iteration, or out.
LoopNext(t) == IF iter[t] + 1 < numIter THEN "idle" ELSE "done"

\* uint32_t prev = counter;
CS_read(t) ==
  /\ pc[t] = "cs"
  /\ prev' = [prev EXCEPT ![t] = counter]
  /\ pc' = [pc EXCEPT ![t] = "cs_incr"]
  /\ UNCHANGED <<lockKind, numIter, iter, counter, fifo_queue, lockVars>>

\* counter++; then the call of unlock().
CS_incr(t) ==
  /\ pc[t] = "cs_incr"
  /\ counter' = prev[t] + 1
  /\ pc' = [pc EXCEPT ![t] = "unlock"]
  /\ fifo_queue' = SelectSeq(fifo_queue, LAMBDA x : x # t)
  /\ UNCHANGED <<lockKind, numIter, iter, prev, lockVars>>

InCS(t) == pc[t] \in {"cs", "cs_incr"}


\* The iteration of thread t ends: the loop counter advances.
EndIteration(t) ==
  /\ iter' = [iter EXCEPT ![t] = iter[t] + 1]
  /\ pc' = [pc EXCEPT ![t] = LoopNext(t)]

-----------------------------------------------------------------------------
(***************************************************************************)
(* MCSLock (lamp/synchronization/mcs_lock.h).  The node of thread t is     *)
(* my_node_ of t, named t.                                                 *)
(***************************************************************************)

MCSInit ==
  /\ mcs_tail = Null
  /\ mcs_locked = [t \in Threads |-> FALSE]
  /\ mcs_next = [t \in Threads |-> Null]
  /\ mcs_pred = [t \in Threads |-> Null]
  /\ mcs_succ = [t \in Threads |-> Null]

\* while (qnode->locked_.load(acquire)): TRUE when the spin goes on.
MCS_spin_wait_bug(t) == FALSE
MCS_spin_wait(t) == mcs_locked[t]

MCSLock_lock(t) ==
  /\ lockKind = "MCS"
  /\ \/ /\ pc[t] = "idle"                      \* pred = tail_.exchange(qnode)
        /\ mcs_pred' = [mcs_pred EXCEPT ![t] = mcs_tail]
        /\ mcs_tail' = t
        /\ pc' = [pc EXCEPT ![t] = IF mcs_tail = Null THEN "cs" ELSE "mcs_l21"]
        /\ fifo_queue' = Append(fifo_queue, t)
        /\ UNCHANGED <<mcs_locked, mcs_next>>
     \/ /\ pc[t] = "mcs_l21"                   \* qnode->locked_.store(true)
        /\ mcs_locked' = [mcs_locked EXCEPT ![t] = TRUE]
        /\ pc' = [pc EXCEPT ![t] = "mcs_l24"]
        /\ UNCHANGED <<mcs_tail, mcs_next, mcs_pred, fifo_queue>>
     \/ /\ pc[t] = "mcs_l24"                   \* pred->next_.store(qnode)
        /\ mcs_next' = [mcs_next EXCEPT ![mcs_pred[t]] = t]
        /\ pc' = [pc EXCEPT ![t] = "mcs_l27"]
        /\ UNCHANGED <<mcs_tail, mcs_locked, mcs_pred, fifo_queue>>
     \/ /\ pc[t] = "mcs_l27"                   \* spin on qnode->locked_
        /\ ~MCS_spin_wait(t)
        /\ pc' = [pc EXCEPT ![t] = "cs"]
        /\ UNCHANGED <<mcs_tail, mcs_locked, mcs_next, mcs_pred, fifo_queue>>
  /\ UNCHANGED <<lockKind, numIter, iter, counter, prev, mcs_succ, others_MCS>>

\* tail_.compare_exchange_strong(expected, nullptr) of unlock succeeds.
MCS_tail_is_bug(t) == TRUE
MCS_tail_is(t) == mcs_tail = t

MCSLock_unlock(t) ==
  /\ lockKind = "MCS"
  /\ \/ /\ pc[t] = "unlock"                    \* succ = qnode->next_.load()
        /\ mcs_succ' = [mcs_succ EXCEPT ![t] = mcs_next[t]]
        /\ pc' = [pc EXCEPT ![t] = IF mcs_next[t] = Null THEN "mcs_u40" ELSE "mcs_u50"]
        /\ UNCHANGED <<iter, mcs_tail, mcs_locked, mcs_next>>
     \/ /\ pc[t] = "mcs_u40"                   \* tail_.compare_exchange_strong(qnode, nullptr)
        /\ IF MCS_tail_is(t)
             THEN /\ mcs_tail' = Null
                  /\ EndIteration(t)
             ELSE /\ pc' = [pc EXCEPT ![t] = "mcs_u47"]
                  /\ UNCHANGED <<iter, mcs_tail>>
        /\ UNCHANGED <<mcs_locked, mcs_next, mcs_succ>>
     \/ /\ pc[t] = "mcs_u47"                   \* while (succ == nullptr) succ = next_.load()
        /\ mcs_next[t] # Null
        /\ mcs_succ' = [mcs_succ EXCEPT ![t] = mcs_next[t]]
        /\ pc' = [pc EXCEPT ![t] = "mcs_u50"]
        /\ UNCHANGED <<iter, mcs_tail, mcs_locked, mcs_next>>
     \/ /\ pc[t] = "mcs_u50"                   \* succ->locked_.store(false)
        /\ mcs_locked' = [mcs_locked EXCEPT ![mcs_succ[t]] = FALSE]
        /\ pc' = [pc EXCEPT ![t] = "mcs_u51"]
        /\ UNCHANGED <<iter, mcs_tail, mcs_next, mcs_succ>>
     \/ /\ pc[t] = "mcs_u51"                   \* qnode->next_.store(nullptr)
        /\ mcs_next' = [mcs_next EXCEPT ![t] = Null]
        /\ EndIteration(t)
        /\ UNCHANGED <<mcs_tail, mcs_locked, mcs_succ>>
  /\ UNCHANGED <<lockKind, numIter, counter, prev, fifo_queue, mcs_pred, others_MCS>>

-----------------------------------------------------------------------------
(***************************************************************************)
(* TicketLock (lamp/ticket_lock.h).                                        *)
(***************************************************************************)

TicketInit ==
  /\ tk_next_ticket = 0
  /\ tk_now_serving = 0
  /\ tk_my_ticket = [t \in Threads |-> 0]

\* while (now_serving_.load(acquire) != my_ticket): TRUE when the spin goes on.
Ticket_spin_wait_bug(t) == tk_now_serving > tk_my_ticket[t]
Ticket_spin_wait(t) == tk_now_serving # tk_my_ticket[t]

TicketLock_lock(t) ==
  /\ lockKind = "Ticket"
  /\ \/ /\ pc[t] = "idle"                      \* my_ticket = next_ticket_.fetch_add(1)
        /\ tk_my_ticket' = [tk_my_ticket EXCEPT ![t] = tk_next_ticket]
        /\ tk_next_ticket' = tk_next_ticket + 1
        /\ pc' = [pc EXCEPT ![t] = "tk_l17"]
        /\ fifo_queue' = Append(fifo_queue, t)
     \/ /\ pc[t] = "tk_l17"                    \* spin on now_serving_
        /\ ~Ticket_spin_wait(t)
        /\ pc' = [pc EXCEPT ![t] = "cs"]
        /\ UNCHANGED <<tk_my_ticket, tk_next_ticket, fifo_queue>>
  /\ UNCHANGED <<lockKind, numIter, iter, counter, prev, tk_now_serving, others_Ticket>>

TicketLock_unlock(t) ==
  /\ lockKind = "Ticket"
  /\ pc[t] = "unlock"                          \* now_serving_.fetch_add(1)
  /\ tk_now_serving' = tk_now_serving + 1
  /\ EndIteration(t)
  /\ UNCHANGED <<lockKind, numIter, counter, prev, fifo_queue, tk_next_ticket,
                 tk_my_ticket, others_Ticket>>

-----------------------------------------------------------------------------
(***************************************************************************)
(* CLHLock (lamp/clh_lock.h).  Node t is the node thread t starts with     *)
(* (my_node_ = new QNode()); node NumThreads + 1 is the one the            *)
(* constructor puts at the tail.                                           *)
(***************************************************************************)

CLHNodes == 1..(NumThreads + 1)

CLHInit ==
  /\ clh_tail = NumThreads + 1
  /\ clh_locked = [n \in CLHNodes |-> FALSE]
  /\ clh_my_node = [t \in Threads |-> t]
  /\ clh_my_pred = [t \in Threads |-> Null]

\* The value lock() stores into the locked_ flag of the thread's own node.
CLH_lock_flag_bug(t) == clh_locked[clh_my_node[t]]
CLH_lock_flag(t) == TRUE

CLHLock_lock(t) ==
  /\ lockKind = "CLH"
  /\ \/ /\ pc[t] = "idle"                      \* qnode->locked_.store(true)
        /\ clh_locked' = [clh_locked EXCEPT ![clh_my_node[t]] = CLH_lock_flag(t)]
        /\ pc' = [pc EXCEPT ![t] = "clh_l33"]
        /\ UNCHANGED <<clh_tail, clh_my_pred, fifo_queue>>
     \/ /\ pc[t] = "clh_l33"                   \* my_pred_ = tail_.exchange(qnode)
        /\ clh_my_pred' = [clh_my_pred EXCEPT ![t] = clh_tail]
        /\ clh_tail' = clh_my_node[t]
        /\ pc' = [pc EXCEPT ![t] = "clh_l40"]
        /\ fifo_queue' = Append(fifo_queue, t)
        /\ UNCHANGED clh_locked
     \/ /\ pc[t] = "clh_l40"                   \* while (pred->locked_.load(acquire)) {}
        /\ ~clh_locked[clh_my_pred[t]]
        /\ pc' = [pc EXCEPT ![t] = "cs"]
        /\ UNCHANGED <<clh_tail, clh_locked, clh_my_pred, fifo_queue>>
  /\ UNCHANGED <<lockKind, numIter, iter, counter, prev, clh_my_node, others_CLH>>

CLHLock_unlock(t) ==
  /\ lockKind = "CLH"
  /\ pc[t] = "unlock"                          \* my_node_->locked_.store(false)
  /\ clh_locked' = [clh_locked EXCEPT ![clh_my_node[t]] = FALSE]
  /\ clh_my_node' = [clh_my_node EXCEPT ![t] = clh_my_pred[t]]  \* my_node_ = my_pred_
  /\ EndIteration(t)
  /\ UNCHANGED <<lockKind, numIter, counter, prev, fifo_queue, clh_tail, clh_my_pred,
                 others_CLH>>

-----------------------------------------------------------------------------
(***************************************************************************)
(* PetersonLock (lamp/lock/peterson_lock.h): two threads, ids 0 and 1.     *)
(***************************************************************************)

PetersonIds == {0, 1}

PetersonInit ==
  /\ pt_flag = [id \in PetersonIds |-> FALSE]
  /\ pt_victim = 0

\* victim_ = id
Peterson_victim_bug(id) == 1 - id
Peterson_victim(id) == id

PetersonLock_lock(id) ==
  /\ lockKind = "Peterson"
  /\ \/ /\ pc[id] = "idle"                     \* flag_[id] = true
        /\ pt_flag' = [pt_flag EXCEPT ![id] = TRUE]
        /\ pc' = [pc EXCEPT ![id] = "pt_l12"]
        /\ UNCHANGED pt_victim
     \/ /\ pc[id] = "pt_l12"                   \* victim_ = id
        /\ pt_victim' = Peterson_victim(id)
        /\ pc' = [pc EXCEPT ![id] = "pt_l13"]
        /\ UNCHANGED pt_flag
     \/ /\ pc[id] = "pt_l13"                   \* while (flag_[j] && ...): load flag_[j]
        /\ pc' = [pc EXCEPT ![id] = IF pt_flag[1 - id] THEN "pt_l13v" ELSE "cs"]
        /\ UNCHANGED <<pt_flag, pt_victim>>
     \/ /\ pc[id] = "pt_l13v"                  \* ... && victim_ == id: load victim_
        /\ pc' = [pc EXCEPT ![id] = IF pt_victim = id THEN "pt_l13" ELSE "cs"]
        /\ UNCHANGED <<pt_flag, pt_victim>>
  /\ UNCHANGED <<lockKind, numIter, iter, counter, prev, fifo_queue, others_Peterson>>

PetersonLock_unlock(id) ==
  /\ lockKind = "Peterson"
  /\ pc[id] = "unlock"                         \* flag_[id] = false
  /\ pt_flag' = [pt_flag EXCEPT ![id] = FALSE]
  /\ EndIteration(id)
  /\ UNCHANGED <<lockKind, numIter, counter, prev, fifo_queue, pt_victim, others_Peterson>>


-----------------------------------------------------------------------------
(***************************************************************************)
(* FilterLock (lamp/synchronization/filter_lock.h), constructed for        *)
(* NumThreads threads with ids 0 .. NumThreads - 1.  The spin loop is      *)
(* modelled load by load: fl_i is the level i, fl_k the index k of the     *)
(* inner scan.                                                             *)
(***************************************************************************)

FilterIds == 0..(NumThreads - 1)

FilterInit ==
  /\ fl_level = [id \in FilterIds |-> 0]
  /\ fl_victim = [i \in FilterIds |-> 0]
  /\ fl_i = [id \in FilterIds |-> 1]
  /\ fl_k = [id \in FilterIds |-> 0]

\* level_[k] >= i, the first half of the conflict test
Filter_level_conflict_bug(k, i) == fl_level[k] > i
Filter_level_conflict(k, i) == fl_level[k] >= i

\* The value unlock() stores into level_[me].
Filter_unlock_level_bug(me) == fl_level[me]
Filter_unlock_level(me) == 0

FilterLock_lock(me) ==
  /\ lockKind = "Filter"
  /\ \/ /\ pc[me] = "idle"                     \* i = 1; level_[me] = i (if 1 < kNumThreads)
        /\ fl_i' = [fl_i EXCEPT ![me] = 1]
        /\ IF 1 < NumThreads
             THEN /\ fl_level' = [fl_level EXCEPT ![me] = 1]
                  /\ pc' = [pc EXCEPT ![me] = "fl_l16"]
             ELSE /\ pc' = [pc EXCEPT ![me] = "cs"]
                  /\ UNCHANGED fl_level
        /\ UNCHANGED <<fl_victim, fl_k>>
     \/ /\ pc[me] = "fl_l15"                   \* level_[me] = i
        /\ fl_level' = [fl_level EXCEPT ![me] = fl_i[me]]
        /\ pc' = [pc EXCEPT ![me] = "fl_l16"]
        /\ UNCHANGED <<fl_victim, fl_i, fl_k>>
     \/ /\ pc[me] = "fl_l16"                   \* victim_[i] = me; k = 0
        /\ fl_victim' = [fl_victim EXCEPT ![fl_i[me]] = me]
        /\ fl_k' = [fl_k EXCEPT ![me] = 0]
        /\ pc' = [pc EXCEPT ![me] = "fl_l22"]
        /\ UNCHANGED <<fl_level, fl_i>>
     \/ /\ pc[me] = "fl_l22"                   \* for (k ...) if (k != me && level_[k] >= i ...
        /\ IF fl_k[me] = NumThreads
             THEN \* the scan found no conflict: i++, the next level or the critical section
                  /\ fl_i' = [fl_i EXCEPT ![me] = fl_i[me] + 1]
                  /\ pc' = [pc EXCEPT ![me] =
                              IF fl_i[me] + 1 < NumThreads THEN "fl_l15" ELSE "cs"]
                  /\ UNCHANGED fl_k
             ELSE IF fl_k[me] # me /\ Filter_level_conflict(fl_k[me], fl_i[me])
               THEN /\ pc' = [pc EXCEPT ![me] = "fl_l22v"]
                    /\ UNCHANGED <<fl_i, fl_k>>
               ELSE /\ fl_k' = [fl_k EXCEPT ![me] = fl_k[me] + 1]
                    /\ UNCHANGED <<pc, fl_i>>
        /\ UNCHANGED <<fl_level, fl_victim>>
     \/ /\ pc[me] = "fl_l22v"                  \* ... && victim_[i] == me
        /\ fl_k' = [fl_k EXCEPT ![me] =
                      IF fl_victim[fl_i[me]] = me THEN 0 ELSE fl_k[me] + 1]
        /\ pc' = [pc EXCEPT ![me] = "fl_l22"]
        /\ UNCHANGED <<fl_level, fl_victim, fl_i>>
  /\ UNCHANGED <<lockKind, numIter, iter, counter, prev, fifo_queue, others_Filter>>

FilterLock_unlock(me) ==
  /\ lockKind = "Filter"
  /\ pc[me] = "unlock"                         \* level_[me] = 0
  /\ fl_level' = [fl_level EXCEPT ![me] = Filter_unlock_level(me)]
  /\ EndIteration(me)
  /\ UNCHANGED <<lockKind, numIter, counter, prev, fifo_queue, fl_victim, fl_i, fl_k,
                 others_Filter>>

-----------------------------------------------------------------------------
(***************************************************************************)
(* ALock (lamp/synchronization/a_lock.h).  al_kSize is the capacity the    *)
(* lock was constructed with, at least the number of threads.              *)
(***************************************************************************)

ALockInit ==
  /\ al_kSize \in IF lockKind = "ALock" THEN NumThreads..(NumThreads + 1)
                                         ELSE {NumThreads}
  /\ al_flags = [i \in 0..(al_kSize - 1) |-> i = 0]
  /\ al_tail = 0
  /\ al_slot = [t \in Threads |-> 0]

\* The value unlock() stores into the flag of the releasing thread's own slot.
ALock_own_flag_bug == TRUE
ALock_own_flag == FALSE

ALock_lock(t) ==
  /\ lockKind = "ALock"
  /\ \/ /\ pc[t] = "idle"                      \* slot = tail_.fetch_add(1) % kSize
        /\ al_slot' = [al_slot EXCEPT ![t] = al_tail % al_kSize]
        /\ al_tail' = al_tail + 1
        /\ pc' = [pc EXCEPT ![t] = "al_l27"]
     \/ /\ pc[t] = "al_l27"                    \* while (!flags_[slot].flag_.load()) {}
        /\ al_flags[al_slot[t]]
        /\ pc' = [pc EXCEPT ![t] = "cs"]
        /\ UNCHANGED <<al_slot, al_tail>>
  /\ UNCHANGED <<lockKind, numIter, iter, counter, prev, fifo_queue, al_kSize, al_flags,
                 others_ALock>>

ALock_unlock(t) ==
  /\ lockKind = "ALock"
  /\ \/ /\ pc[t] = "unlock"                    \* flags_[slot].flag_.store(false)
        /\ al_flags' = [al_flags EXCEPT ![al_slot[t]] = ALock_own_flag]
        /\ pc' = [pc EXCEPT ![t] = "al_u33"]
        /\ UNCHANGED iter
     \/ /\ pc[t] = "al_u33"                    \* flags_[(slot + 1) % kSize].flag_.store(true)
        /\ al_flags' = [al_flags EXCEPT ![(al_slot[t] + 1) % al_kSize] = TRUE]
        /\ EndIteration(t)
  /\ UNCHANGED <<lockKind, numIter, counter, prev, fifo_queue, al_kSize, al_tail, al_slot,
                 others_ALock>>

-----------------------------------------------------------------------------
(***************************************************************************)
(* TOLock (timeout_lock.h).  try_lock allocates a new node on every call   *)
(* and no node is ever freed: nodes are numbered in the order of their     *)
(* allocation.  Whether the timeout has expired is a free choice at every  *)
(* evaluation of the loop condition.                                       *)
(***************************************************************************)

AVAILABLE == -1

\* The model stops allocating after TOMaxNodes nodes.
TONodes == 1..TOMaxNodes

TOInit ==
  /\ to_tail = Null
  /\ to_pred = [n \in TONodes |-> Null]
  /\ to_nalloc = 0
  /\ to_my_node = [t \in Threads |-> Null]
  /\ to_my_pred = [t \in Threads |-> Null]
  /\ to_result = [t \in Threads |-> "none"]

\* try_lock returns false: the else branch of the test ends the iteration.
TO_return_false(t) ==
  /\ to_result' = [to_result EXCEPT ![t] = "false"]
  /\ EndIteration(t)

\* try_lock returns true: the thread is in the critical section.
TO_return_true(t) ==
  /\ to_result' = [to_result EXCEPT ![t] = "true"]
  /\ pc' = [pc EXCEPT ![t] = "cs"]
  /\ UNCHANGED iter

\* The pointer a thread that gives up stores into its node's pred_.
TO_abandon_pred_bug(t) == Null
TO_abandon_pred(t) == to_my_pred[t]

\* my_pred = pred_pred: the predecessor of a thread that met an abandoned node.
TO_skip_bug(t) == to_my_pred[t]
TO_skip(t) == to_pred[to_my_pred[t]]

TOLock_try_lock(t) ==
  /\ lockKind = "TOLock"
  /\ \/ /\ pc[t] = "idle"          \* qnode = new QNode(); my_pred = tail_.exchange(qnode)
        /\ to_nalloc < TOMaxNodes
        /\ to_nalloc' = to_nalloc + 1
        /\ to_my_node' = [to_my_node EXCEPT ![t] = to_nalloc + 1]
        /\ to_my_pred' = [to_my_pred EXCEPT ![t] = to_tail]
        /\ to_tail' = to_nalloc + 1
        /\ IF to_tail = Null
             THEN TO_return_true(t)
             ELSE /\ pc' = [pc EXCEPT ![t] = "to_l35"]
                  /\ UNCHANGED <<iter, to_result>>
        /\ UNCHANGED to_pred
     \/ /\ pc[t] = "to_l35"        \* my_pred->pred_.load() == &AVAILABLE
        /\ IF to_pred[to_my_pred[t]] = AVAILABLE
             THEN TO_return_true(t)
             ELSE /\ pc' = [pc EXCEPT ![t] = "to_l42"]
                  /\ UNCHANGED <<iter, to_result>>
        /\ UNCHANGED <<to_tail, to_pred, to_nalloc, to_my_node, to_my_pred>>
     \/ /\ pc[t] = "to_l42"        \* time is left: pred_pred = my_pred->pred_.load()
        /\ to_pred[to_my_pred[t]] # Null
        /\ IF to_pred[to_my_pred[t]] = AVAILABLE
             THEN /\ TO_return_true(t)
                  /\ UNCHANGED to_my_pred
             ELSE /\ to_my_pred' = [to_my_pred EXCEPT ![t] = TO_skip(t)]
                  /\ UNCHANGED <<pc, iter, to_result>>
        /\ UNCHANGED <<to_tail, to_pred, to_nalloc, to_my_node>>
     \/ /\ pc[t] = "to_l42"        \* the timeout has expired: leave the loop
        /\ pc' = [pc EXCEPT ![t] = "to_l61"]
        /\ UNCHANGED <<iter, to_tail, to_pred, to_nalloc, to_my_node, to_my_pred,
                       to_result>>
     \/ /\ pc[t] = "to_l61"        \* tail_.compare_exchange_strong(qnode, my_pred)
        /\ IF to_tail = to_my_node[t]
             THEN /\ to_tail' = to_my_pred[t]
                  /\ TO_return_false(t)
             ELSE /\ pc' = [pc EXCEPT ![t] = "to_l64"]
                  /\ UNCHANGED <<iter, to_tail, to_result>>
        /\ UNCHANGED <<to_pred, to_nalloc, to_my_node, to_my_pred>>
     \/ /\ pc[t] = "to_l64"        \* qnode->pred_.store(my_pred)
        /\ to_pred' = [to_pred EXCEPT ![to_my_node[t]] = TO_abandon_pred(t)]
        /\ TO_return_false(t)
        /\ UNCHANGED <<to_tail, to_nalloc, to_my_node, to_my_pred>>
  /\ UNCHANGED <<lockKind, numIter, counter, prev, fifo_queue, others_TOLock>>

TOLock_unlock(t) ==
  /\ lockKind = "TOLock"
  /\ \/ /\ pc[t] = "unlock"        \* tail_.compare_exchange_strong(qnode, nullptr)
        /\ IF to_tail = to_my_node[t]
             THEN /\ to_tail' = Null
                  /\ EndIteration(t)
             ELSE /\ pc' = [pc EXCEPT ![t] = "to_u80"]
                  /\ UNCHANGED <<iter, to_tail>>
        /\ UNCHANGED to_pred
     \/ /\ pc[t] = "to_u80"        \* qnode->pred_.store(&AVAILABLE)
        /\ to_pred' = [to_pred EXCEPT ![to_my_node[t]] = AVAILABLE]
        /\ EndIteration(t)
        /\ UNCHANGED to_tail
  /\ UNCHANGED <<lockKind, numIter, counter, prev, fifo_queue, to_nalloc, to_my_node,
                 to_my_pred, to_result, others_TOLock>>

(***************************************************************************)
(* CompositeLock (lamp/composite_lock.h).  The nodes are the slots of the  *)
(* waiting_ array, numbered from 1; tail_ is the pair <<node, stamp>>.     *)
(* The slot a thread draws and whether its timeout has expired are free    *)
(* choices; backing off changes no state.  A label cl_lN is line N of the  *)
(* header.                                                                 *)
(***************************************************************************)

CompositeThreads == 1..CLThreads
CLSlots == 1..CLSize

CompositeInit ==
  /\ cl_kSize \in IF lockKind = "Composite" THEN CLSlots ELSE {CLSize}
  /\ cl_state = [n \in CLSlots |-> "FREE"]
  /\ cl_pred = [n \in CLSlots |-> Null]
  /\ cl_tail = <<Null, 0>>
  /\ cl_my_node = [t \in CompositeThreads |-> Null]
  /\ cl_node = [t \in CompositeThreads |-> Null]
  /\ cl_seen = [t \in CompositeThreads |-> "FREE"]
  /\ cl_cur = [t \in CompositeThreads |-> <<Null, 0>>]
  /\ cl_mypred = [t \in CompositeThreads |-> Null]
  /\ cl_temp = [t \in CompositeThreads |-> Null]

\* try_lock returns and its locals are gone.  true: my_node_ = node, and the
\* thread is in the critical section; false (TimeoutException caught): the
\* test's else branch ends the iteration.
CL_return(t, acquired) ==
  /\ IF acquired
       THEN /\ cl_my_node' = [cl_my_node EXCEPT ![t] = cl_node[t]]
            /\ pc' = [pc EXCEPT ![t] = "cs"]
            /\ UNCHANGED iter
       ELSE /\ EndIteration(t)
            /\ UNCHANGED cl_my_node
  /\ cl_node' = [cl_node EXCEPT ![t] = Null]
  /\ cl_seen' = [cl_seen EXCEPT ![t] = "FREE"]
  /\ cl_cur' = [cl_cur EXCEPT ![t] = <<Null, 0>>]
  /\ cl_mypred' = [cl_mypred EXCEPT ![t] = Null]
  /\ cl_temp' = [cl_temp EXCEPT ![t] = Null]

\* node->state_.compare_exchange_strong(state, WAITING) with state = FREE.
CL_try_acquire(t, n) ==
  /\ cl_node' = [cl_node EXCEPT ![t] = n]
  /\ IF cl_state[n] = "FREE"
       THEN /\ cl_state' = [cl_state EXCEPT ![n] = "WAITING"]
            /\ pc' = [pc EXCEPT ![t] = "cl_l125"]
            /\ UNCHANGED cl_seen
       ELSE /\ cl_seen' = [cl_seen EXCEPT ![t] = cl_state[n]]
            /\ pc' = [pc EXCEPT ![t] = "cl_l88"]
            /\ UNCHANGED cl_state
  /\ UNCHANGED <<iter, cl_pred, cl_tail, cl_my_node, cl_cur, cl_mypred, cl_temp>>

CompositeLock_acquire_qnode(t) ==
  /\ lockKind = "Composite"
  /\ \/ /\ pc[t] = "idle"          \* node = &waiting_[random]; first CAS
        /\ \E n \in 1..cl_kSize : CL_try_acquire(t, n)
     \/ /\ pc[t] = "cl_l83"        \* the CAS of a later round of the loop
        /\ CL_try_acquire(t, cl_node[t])
     \/ /\ pc[t] = "cl_l88"        \* cur_tail = tail_.get(stamp)
        /\ cl_cur' = [cl_cur EXCEPT ![t] = cl_tail]
        /\ IF cl_seen[t] \in {"ABORTED", "RELEASED"} /\ cl_node[t] = cl_tail[1]
             THEN IF cl_seen[t] = "ABORTED"
                    THEN /\ pc' = [pc EXCEPT ![t] = "cl_l100"]
                         /\ UNCHANGED cl_mypred
                    ELSE /\ pc' = [pc EXCEPT ![t] = "cl_l102"]
                         /\ cl_mypred' = [cl_mypred EXCEPT ![t] = Null]
             ELSE /\ pc' = [pc EXCEPT ![t] = "cl_l110"]
                  /\ UNCHANGED cl_mypred
        /\ UNCHANGED <<iter, cl_state, cl_pred, cl_tail, cl_my_node, cl_node,
                       cl_seen, cl_temp>>
     \/ /\ pc[t] = "cl_l100"       \* my_pred = node->pred_
        /\ cl_mypred' = [cl_mypred EXCEPT ![t] = cl_pred[cl_node[t]]]
        /\ pc' = [pc EXCEPT ![t] = "cl_l102"]
        /\ UNCHANGED <<iter, cl_state, cl_pred, cl_tail, cl_my_node, cl_node,
                       cl_seen, cl_cur, cl_temp>>
     \/ /\ pc[t] = "cl_l102"       \* tail_.compare_and_set(cur_tail, my_pred, stamp, stamp + 1)
        /\ IF cl_tail = cl_cur[t]
             THEN /\ cl_tail' = <<cl_mypred[t], cl_cur[t][2] + 1>>
                  /\ pc' = [pc EXCEPT ![t] = "cl_l103"]
             ELSE /\ pc' = [pc EXCEPT ![t] = "cl_l110"]
                  /\ UNCHANGED cl_tail
        /\ UNCHANGED <<iter, cl_state, cl_pred, cl_my_node, cl_node, cl_seen,
                       cl_cur, cl_mypred, cl_temp>>
     \/ /\ pc[t] = "cl_l103"       \* node->state_.store(WAITING); return node
        /\ cl_state' = [cl_state EXCEPT ![cl_node[t]] = "WAITING"]
        /\ pc' = [pc EXCEPT ![t] = "cl_l125"]
        /\ UNCHANGED <<iter, cl_pred, cl_tail, cl_my_node, cl_node, cl_seen,
                       cl_cur, cl_mypred, cl_temp>>
     \/ /\ pc[t] = "cl_l110"       \* backoff; no timeout: next round
        /\ pc' = [pc EXCEPT ![t] = "cl_l83"]
        /\ UNCHANGED <<iter, clVars>>
     \/ /\ pc[t] = "cl_l110"       \* backoff; timeout: throw
        /\ CL_return(t, FALSE)
        /\ UNCHANGED <<cl_state, cl_pred, cl_tail>>
  /\ UNCHANGED <<lockKind, numIter, counter, prev, fifo_queue, cl_kSize,
                 others_Composite>>

CompositeLock_splice_qnode(t) ==
  /\ lockKind = "Composite"
  /\ \/ /\ pc[t] = "cl_l125"       \* cur_tail = tail_.get(stamp); no timeout
        /\ cl_cur' = [cl_cur EXCEPT ![t] = cl_tail]
        /\ pc' = [pc EXCEPT ![t] = "cl_l132"]
        /\ UNCHANGED <<iter, cl_state, cl_pred, cl_tail, cl_my_node, cl_node,
                       cl_seen, cl_mypred, cl_temp>>
     \/ /\ pc[t] = "cl_l125"       \* cur_tail = tail_.get(stamp); timeout
        /\ cl_cur' = [cl_cur EXCEPT ![t] = cl_tail]
        /\ pc' = [pc EXCEPT ![t] = "cl_l127"]
        /\ UNCHANGED <<iter, cl_state, cl_pred, cl_tail, cl_my_node, cl_node,
                       cl_seen, cl_mypred, cl_temp>>
     \/ /\ pc[t] = "cl_l127"       \* node->state_.store(FREE); throw
        /\ cl_state' = [cl_state EXCEPT ![cl_node[t]] = "FREE"]
        /\ CL_return(t, FALSE)
        /\ UNCHANGED <<cl_pred, cl_tail>>
     \/ /\ pc[t] = "cl_l132"       \* tail_.compare_and_set(cur_tail, node, stamp, stamp + 1)
        /\ IF cl_tail = cl_cur[t]
             THEN /\ cl_tail' = <<cl_node[t], cl_cur[t][2] + 1>>
                  /\ IF cl_cur[t][1] = Null    \* wait_for_predecessor: pred == nullptr
                       THEN CL_return(t, TRUE)
                       ELSE /\ cl_mypred' = [cl_mypred EXCEPT ![t] = cl_cur[t][1]]
                            /\ pc' = [pc EXCEPT ![t] = "cl_l148"]
                            /\ UNCHANGED <<iter, cl_my_node, cl_node, cl_seen, cl_cur,
                                           cl_temp>>
             ELSE /\ pc' = [pc EXCEPT ![t] = "cl_l125"]
                  /\ UNCHANGED <<iter, cl_tail, cl_my_node, cl_node, cl_seen, cl_cur,
                                 cl_mypred, cl_temp>>
        /\ UNCHANGED <<cl_state, cl_pred>>
  /\ UNCHANGED <<lockKind, numIter, counter, prev, fifo_queue, cl_kSize,
                 others_Composite>>

CompositeLock_wait_for_predecessor(t) ==
  /\ lockKind = "Composite"
  /\ \/ /\ pc[t] = "cl_l148"       \* pred_state = pred->state_.load() (lines 148, 169)
        /\ cl_mypred[t] # Null
        /\ cl_seen' = [cl_seen EXCEPT ![t] = cl_state[cl_mypred[t]]]
        /\ \/ /\ cl_state[cl_mypred[t]] = "RELEASED"
              /\ pc' = [pc EXCEPT ![t] = "cl_l172"]
           \/ /\ cl_state[cl_mypred[t]] = "ABORTED"
              /\ pc' = [pc EXCEPT ![t] = "cl_l156"]
           \/ /\ cl_state[cl_mypred[t]] \notin {"RELEASED", "ABORTED"}
              /\ pc' = [pc EXCEPT ![t] = "cl_l148"]     \* no timeout: load again
           \/ /\ cl_state[cl_mypred[t]] \notin {"RELEASED", "ABORTED"}
              /\ pc' = [pc EXCEPT ![t] = "cl_l163"]     \* timeout
        /\ UNCHANGED <<iter, cl_state, cl_pred, cl_tail, cl_my_node, cl_node,
                       cl_cur, cl_mypred, cl_temp>>
     \/ /\ pc[t] = "cl_l156"       \* temp = pred; pred = pred->pred_
        /\ cl_temp' = [cl_temp EXCEPT ![t] = cl_mypred[t]]
        /\ cl_mypred' = [cl_mypred EXCEPT ![t] = cl_pred[cl_mypred[t]]]
        /\ pc' = [pc EXCEPT ![t] = "cl_l157"]
        /\ UNCHANGED <<iter, cl_state, cl_pred, cl_tail, cl_my_node, cl_node,
                       cl_seen, cl_cur>>
     \/ /\ pc[t] = "cl_l157"       \* temp->state_.store(FREE); then the timeout test
        /\ cl_state' = [cl_state EXCEPT ![cl_temp[t]] = "FREE"]
        /\ \/ pc' = [pc EXCEPT ![t] = "cl_l148"]
           \/ pc' = [pc EXCEPT ![t] = "cl_l163"]
        /\ UNCHANGED <<iter, cl_pred, cl_tail, cl_my_node, cl_node, cl_seen,
                       cl_cur, cl_mypred, cl_temp>>
     \/ /\ pc[t] = "cl_l163"       \* node->pred_ = pred
        /\ cl_pred' = [cl_pred EXCEPT ![cl_node[t]] = cl_mypred[t]]
        /\ pc' = [pc EXCEPT ![t] = "cl_l164"]
        /\ UNCHANGED <<iter, cl_state, cl_tail, cl_my_node, cl_node, cl_seen,
                       cl_cur, cl_mypred, cl_temp>>
     \/ /\ pc[t] = "cl_l164"       \* node->state_.store(ABORTED); throw
        /\ cl_state' = [cl_state EXCEPT ![cl_node[t]] = "ABORTED"]
        /\ CL_return(t, FALSE)
        /\ UNCHANGED <<cl_pred, cl_tail>>
     \/ /\ pc[t] = "cl_l172"       \* pred->state_.store(FREE); my_node_ = node
        /\ cl_state' = [cl_state EXCEPT ![cl_mypred[t]] = "FREE"]
        /\ CL_return(t, TRUE)
        /\ UNCHANGED <<cl_pred, cl_tail>>
  /\ UNCHANGED <<lockKind, numIter, counter, prev, fifo_queue, cl_kSize,
                 others_Composite>>

CompositeLock_unlock(t) ==
  /\ lockKind = "Composite"
  /\ pc[t] = "unlock"              \* my_node_->state_.store(RELEASED); my_node_ = nullptr
  /\ cl_state' = [cl_state EXCEPT ![cl_my_node[t]] = "RELEASED"]
  /\ cl_my_node' = [cl_my_node EXCEPT ![t] = Null]
  /\ EndIteration(t)
  /\ UNCHANGED <<lockKind, numIter, counter, prev, fifo_queue, cl_pred, cl_tail,
                 cl_node, cl_seen, cl_cur, cl_mypred, cl_temp, cl_kSize,
                 others_Composite>>

(***************************************************************************)
(* ConditionVariable (lamp/lock/condition_variable.h), used with the       *)
(* TTASLock mutex_ of its client.  The signal a waiting thread allocates   *)
(* is named by the thread.  waiters_ is read and written only inside       *)
(* waiters_lock_, so each locked region is one step.  A label cv_lN is     *)
(* line N of the header.                                                   *)
(*                                                                         *)
(* A notifier keeps the signals it took from waiters_ as plain pointers.   *)
(* When thread t deletes its signal, a pointer to it that a notifier still *)
(* holds dangles: it is written -t.  operator new may hand the freed block *)
(* out again, and then the dangling pointer points to the new signal.  A   *)
(* store through a pointer that still dangles reaches no signal.           *)
(***************************************************************************)

\* to_notify of every notifier after thread t has run `delete signal`.
CV_delete(t) ==
  [n \in DOMAIN cv_to_notify |->
     [i \in DOMAIN cv_to_notify[n] |->
        IF cv_to_notify[n][i] = t THEN 0 - t ELSE cv_to_notify[n][i]]]

\* to_notify of every notifier after thread t has run `new std::atomic<bool>`:
\* the block is a fresh one, or a freed one that some notifier still points to.
CV_new_signal(t) ==
  {cv_to_notify} \cup
  {[n \in DOMAIN cv_to_notify |->
      [i \in DOMAIN cv_to_notify[n] |->
         IF cv_to_notify[n][i] = d THEN t ELSE cv_to_notify[n][i]]] :
     d \in {e \in {0 - u : u \in DOMAIN cv_to_notify} :
              \E n \in DOMAIN cv_to_notify :
                \E i \in DOMAIN cv_to_notify[n] : cv_to_notify[n][i] = e}}

\* The signals after signal->store(true) through pointer sig.
CV_store(sig) ==
  IF sig > 0 THEN [cv_signal EXCEPT ![sig] = TRUE] ELSE cv_signal

ConditionVariable_wait(t) ==
  /\ \/ /\ pc[t] = "cv_l77"        \* signal = new atomic<bool>(false); waiters_.push_back(signal)
        /\ cv_signal' = [cv_signal EXCEPT ![t] = FALSE]
        /\ cv_to_notify' \in CV_new_signal(t)
        /\ cv_waiters' = Append(cv_waiters, t)
        /\ pc' = [pc EXCEPT ![t] = "cv_l82"]
        /\ UNCHANGED <<ttas_state, cv_ret>>
     \/ /\ pc[t] = "cv_l82"        \* lock.unlock()
        /\ ttas_state' = FALSE
        /\ pc' = [pc EXCEPT ![t] = "cv_l85"]
        /\ UNCHANGED <<cv_signal, cv_waiters, cv_to_notify, cv_ret>>
     \/ /\ pc[t] = "cv_l85"        \* while (!signal->load()) yield; delete signal
        /\ cv_signal[t]
        /\ cv_signal' = [cv_signal EXCEPT ![t] = FALSE]
        /\ cv_to_notify' = CV_delete(t)
        /\ pc' = [pc EXCEPT ![t] = "cv_l93"]
        /\ UNCHANGED <<ttas_state, cv_waiters, cv_ret>>
     \/ /\ pc[t] = "cv_l93"        \* lock.lock(); return
        /\ ~ttas_state
        /\ ttas_state' = TRUE
        /\ pc' = [pc EXCEPT ![t] = cv_ret[t]]
        /\ cv_ret' = [cv_ret EXCEPT ![t] = "idle"]
        /\ UNCHANGED <<cv_signal, cv_waiters, cv_to_notify>>
  /\ UNCHANGED <<lockKind, numIter, iter, counter, prev, fifo_queue, rw_num_readers,
                 rw_has_writer, others_RW>>

\* What notify_all moves out of waiters_ while it holds waiters_lock_.
CV_to_notify_bug == <<>>
CV_to_notify == cv_waiters

ConditionVariable_notify_all(t) ==
  /\ \/ /\ pc[t] = "cv_l56"        \* move all of waiters_ to to_notify
        /\ cv_to_notify' = [cv_to_notify EXCEPT ![t] = CV_to_notify]
        /\ cv_waiters' = <<>>
        /\ IF CV_to_notify = <<>>
             THEN /\ pc' = [pc EXCEPT ![t] = cv_ret[t]]
                  /\ cv_ret' = [cv_ret EXCEPT ![t] = "idle"]
             ELSE /\ pc' = [pc EXCEPT ![t] = "cv_l66"]
                  /\ UNCHANGED cv_ret
        /\ UNCHANGED cv_signal
     \/ /\ pc[t] = "cv_l66"        \* signal->store(true), one signal of to_notify
        /\ cv_signal' = CV_store(Head(cv_to_notify[t]))
        /\ cv_to_notify' = [cv_to_notify EXCEPT ![t] = Tail(cv_to_notify[t])]
        /\ IF Len(cv_to_notify[t]) = 1
             THEN /\ pc' = [pc EXCEPT ![t] = cv_ret[t]]
                  /\ cv_ret' = [cv_ret EXCEPT ![t] = "idle"]
             ELSE UNCHANGED <<pc, cv_ret>>
        /\ UNCHANGED cv_waiters
  /\ UNCHANGED <<lockKind, numIter, iter, counter, prev, fifo_queue, rw_num_readers,
                 rw_has_writer, ttas_state, others_RW>>

\* signal_to_set = waiters_.front()
CV_front_bug == cv_waiters[Len(cv_waiters)]
CV_front == Head(cv_waiters)

ConditionVariable_notify_one(t) ==
  /\ \/ /\ pc[t] = "cv_l38"        \* take the front of waiters_, if there is one
        /\ IF cv_waiters = <<>>
             THEN /\ pc' = [pc EXCEPT ![t] = cv_ret[t]]
                  /\ cv_ret' = [cv_ret EXCEPT ![t] = "idle"]
                  /\ UNCHANGED <<cv_waiters, cv_to_notify>>
             ELSE /\ cv_to_notify' = [cv_to_notify EXCEPT ![t] = <<CV_front>>]
                  /\ cv_waiters' = Tail(cv_waiters)
                  /\ pc' = [pc EXCEPT ![t] = "cv_l47"]
                  /\ UNCHANGED cv_ret
        /\ UNCHANGED cv_signal
     \/ /\ pc[t] = "cv_l47"        \* signal_to_set->store(true)
        /\ cv_signal' = CV_store(Head(cv_to_notify[t]))
        /\ cv_to_notify' = [cv_to_notify EXCEPT ![t] = <<>>]
        /\ pc' = [pc EXCEPT ![t] = cv_ret[t]]
        /\ cv_ret' = [cv_ret EXCEPT ![t] = "idle"]
        /\ UNCHANGED cv_waiters
  /\ UNCHANGED <<lockKind, numIter, iter, counter, prev, fifo_queue, rw_num_readers,
                 rw_has_writer, ttas_state, others_RW>>

\* The deadline abs_time may pass at any moment of the waiting loop.
ConditionVariable_wait_until(t) ==
  /\ \/ /\ pc[t] = "cv_l111"       \* signal = new atomic<bool>(false); waiters_.push_back(signal)
        /\ cv_signal' = [cv_signal EXCEPT ![t] = FALSE]
        /\ cv_to_notify' \in CV_new_signal(t)
        /\ cv_waiters' = Append(cv_waiters, t)
        /\ cv_signaled' = [cv_signaled EXCEPT ![t] = FALSE]
        /\ cv_erased' = [cv_erased EXCEPT ![t] = FALSE]
        /\ cv_status' = [cv_status EXCEPT ![t] = "none"]
        /\ pc' = [pc EXCEPT ![t] = "cv_l119"]
        /\ UNCHANGED <<ttas_state, cv_ret>>
     \/ /\ pc[t] = "cv_l119"       \* lock.unlock()
        /\ ttas_state' = FALSE
        /\ pc' = [pc EXCEPT ![t] = "cv_l123"]
        /\ UNCHANGED <<cv_signal, cv_waiters, cv_to_notify, cv_ret, cvuVars>>
     \/ /\ pc[t] = "cv_l123"       \* Clock::now() < abs_time: signaled = signal->load()
        /\ cv_signal[t]
        /\ cv_signaled' = [cv_signaled EXCEPT ![t] = TRUE]
        /\ pc' = [pc EXCEPT ![t] = "cv_l141"]
        /\ UNCHANGED <<ttas_state, cv_signal, cv_waiters, cv_to_notify, cv_ret,
                       cv_erased, cv_status>>
     \/ /\ pc[t] = "cv_l123"       \* Clock::now() >= abs_time: leave the loop
        /\ pc' = [pc EXCEPT ![t] = "cv_l132"]
        /\ UNCHANGED <<ttas_state, cv_signal, cv_waiters, cv_to_notify, cv_ret,
                       cvuVars>>
     \/ /\ pc[t] = "cv_l132"       \* !signaled: find the signal on waiters_, erase it if found
        /\ cv_erased' = [cv_erased EXCEPT ![t] = \E i \in DOMAIN cv_waiters : cv_waiters[i] = t]
        /\ cv_waiters' = SelectSeq(cv_waiters, LAMBDA w : w # t)
        /\ pc' = [pc EXCEPT ![t] = "cv_l141"]
        /\ UNCHANGED <<ttas_state, cv_signal, cv_to_notify, cv_ret, cv_signaled,
                       cv_status>>
     \/ /\ pc[t] = "cv_l141"       \* delete signal
        /\ cv_signal' = [cv_signal EXCEPT ![t] = FALSE]
        /\ cv_to_notify' = CV_delete(t)
        /\ pc' = [pc EXCEPT ![t] = "cv_l144"]
        /\ UNCHANGED <<ttas_state, cv_waiters, cv_ret, cvuVars>>
     \/ /\ pc[t] = "cv_l144"       \* lock.lock(); return signaled ? kNoTimeout : kTimeout
        /\ ~ttas_state
        /\ ttas_state' = TRUE
        /\ cv_status' = [cv_status EXCEPT ![t] =
                          IF cv_signaled[t] THEN "NoTimeout" ELSE "Timeout"]
        /\ pc' = [pc EXCEPT ![t] = cv_ret[t]]
        /\ cv_ret' = [cv_ret EXCEPT ![t] = "idle"]
        /\ UNCHANGED <<cv_signal, cv_waiters, cv_to_notify, cv_signaled, cv_erased>>
  /\ UNCHANGED <<lockKind, numIter, iter, counter, prev, fifo_queue, rw_num_readers,
                 rw_has_writer, cvt_queue, semVars, others_Sync>>

(***************************************************************************)
(* SimpleReadWriteLock (simple_read_write_lock.h) and FIFOReadWriteLock    *)
(* (lamp/lock/fifo_read_write_lock.h); lockKind tells which one is under   *)
(* test.  Every method runs inside ScopedLock<TTASLock> lk(mutex_).  A     *)
(* thread at "idle" calls read_lock or write_lock; a reader is in its      *)
(* critical section at "rcs", a writer in the test loop's at "cs".         *)
(***************************************************************************)

RWThreads == 1..RWNumThreads

RWInit ==
  /\ rw_num_readers = 0
  /\ rw_has_writer = FALSE
  /\ ttas_state = FALSE
  /\ cv_waiters = <<>>
  /\ cv_signal = [t \in DOMAIN pc |-> FALSE]
  /\ cv_to_notify = [t \in DOMAIN pc |-> <<>>]
  /\ cv_ret = [t \in DOMAIN pc |-> "idle"]

\* The condition of the waiting loop of read_lock.
RW_read_wait_bug == FALSE
RW_read_wait == rw_has_writer

ReadWriteLock_read_lock(t) ==
  /\ lockKind \in {"SimpleRW", "FIFORW"}
  /\ \/ /\ pc[t] = "idle"          \* ScopedLock lk(mutex_): TTASLock::lock
        /\ ~ttas_state
        /\ ttas_state' = TRUE
        /\ pc' = [pc EXCEPT ![t] = "rl_test"]
        /\ UNCHANGED <<rw_num_readers, cv_ret>>
     \/ /\ pc[t] = "rl_test"       \* while (has_writer_) cv_.wait(mutex_); num_readers_++
        /\ IF RW_read_wait
             THEN /\ pc' = [pc EXCEPT ![t] = "cv_l77"]
                  /\ cv_ret' = [cv_ret EXCEPT ![t] = "rl_test"]
                  /\ UNCHANGED rw_num_readers
             ELSE /\ rw_num_readers' = rw_num_readers + 1
                  /\ pc' = [pc EXCEPT ![t] = "rl_exit"]
                  /\ UNCHANGED cv_ret
        /\ UNCHANGED ttas_state
     \/ /\ pc[t] = "rl_exit"       \* ~ScopedLock: mutex_.unlock()
        /\ ttas_state' = FALSE
        /\ pc' = [pc EXCEPT ![t] = "rcs"]
        /\ UNCHANGED <<rw_num_readers, cv_ret>>
  /\ UNCHANGED <<lockKind, numIter, iter, counter, prev, fifo_queue, rw_has_writer,
                 cv_waiters, cv_signal, cv_to_notify, others_RW>>

ReadWriteLock_read_unlock(t) ==
  /\ lockKind \in {"SimpleRW", "FIFORW"}
  /\ \/ /\ pc[t] = "rcs"           \* ScopedLock lk(mutex_)
        /\ ~ttas_state
        /\ ttas_state' = TRUE
        /\ pc' = [pc EXCEPT ![t] = "ru_body"]
        /\ UNCHANGED <<iter, rw_num_readers, cv_ret>>
     \/ /\ pc[t] = "ru_body"       \* num_readers_--; if (num_readers_ == 0) cv_.notify_all()
        /\ rw_num_readers' = rw_num_readers - 1
        /\ IF rw_num_readers - 1 = 0
             THEN /\ pc' = [pc EXCEPT ![t] = "cv_l56"]
                  /\ cv_ret' = [cv_ret EXCEPT ![t] = "ru_exit"]
             ELSE /\ pc' = [pc EXCEPT ![t] = "ru_exit"]
                  /\ UNCHANGED cv_ret
        /\ UNCHANGED <<iter, ttas_state>>
     \/ /\ pc[t] = "ru_exit"       \* ~ScopedLock: mutex_.unlock()
        /\ ttas_state' = FALSE
        /\ EndIteration(t)
        /\ UNCHANGED <<rw_num_readers, cv_ret>>
  /\ UNCHANGED <<lockKind, numIter, counter, prev, fifo_queue, rw_has_writer,
                 cv_waiters, cv_signal, cv_to_notify, others_RW>>

\* The condition of the (first) waiting loop of write_lock.
RW_write_wait_bug == rw_has_writer
RW_write_wait ==
  IF lockKind = "SimpleRW" THEN rw_num_readers > 0 \/ rw_has_writer
                           ELSE rw_has_writer

ReadWriteLock_write_lock(t) ==
  /\ lockKind \in {"SimpleRW", "FIFORW"}
  /\ \/ /\ pc[t] = "idle"          \* ScopedLock lk(mutex_)
        /\ ~ttas_state
        /\ ttas_state' = TRUE
        /\ pc' = [pc EXCEPT ![t] = "wl_test"]
        /\ UNCHANGED <<rw_has_writer, cv_ret>>
     \/ /\ pc[t] = "wl_test"       \* first loop, then has_writer_ = true
        /\ IF RW_write_wait
             THEN /\ pc' = [pc EXCEPT ![t] = "cv_l77"]
                  /\ cv_ret' = [cv_ret EXCEPT ![t] = "wl_test"]
                  /\ UNCHANGED rw_has_writer
             ELSE /\ rw_has_writer' = TRUE
                  /\ pc' = [pc EXCEPT ![t] =
                              IF lockKind = "FIFORW" THEN "wl_test2" ELSE "wl_exit"]
                  /\ UNCHANGED cv_ret
        /\ UNCHANGED ttas_state
     \/ /\ pc[t] = "wl_test2"      \* FIFO: while (num_readers_ > 0) cv_.wait(mutex_)
        /\ IF rw_num_readers > 0
             THEN /\ pc' = [pc EXCEPT ![t] = "cv_l77"]
                  /\ cv_ret' = [cv_ret EXCEPT ![t] = "wl_test2"]
             ELSE /\ pc' = [pc EXCEPT ![t] = "wl_exit"]
                  /\ UNCHANGED cv_ret
        /\ UNCHANGED <<rw_has_writer, ttas_state>>
     \/ /\ pc[t] = "wl_exit"       \* ~ScopedLock: mutex_.unlock()
        /\ ttas_state' = FALSE
        /\ pc' = [pc EXCEPT ![t] = "cs"]
        /\ UNCHANGED <<rw_has_writer, cv_ret>>
  /\ UNCHANGED <<lockKind, numIter, iter, counter, prev, fifo_queue, rw_num_readers,
                 cv_waiters, cv_signal, cv_to_notify, others_RW>>

ReadWriteLock_write_unlock(t) ==
  /\ lockKind \in {"SimpleRW", "FIFORW"}
  /\ \/ /\ pc[t] = "unlock"        \* ScopedLock lk(mutex_)
        /\ ~ttas_state
        /\ ttas_state' = TRUE
        /\ pc' = [pc EXCEPT ![t] = "wu_body"]
        /\ UNCHANGED <<iter, rw_has_writer, cv_ret>>
     \/ /\ pc[t] = "wu_body"       \* has_writer_ = false; cv_.notify_all()
        /\ rw_has_writer' = FALSE
        /\ pc' = [pc EXCEPT ![t] = "cv_l56"]
        /\ cv_ret' = [cv_ret EXCEPT ![t] = "wu_exit"]
        /\ UNCHANGED <<iter, ttas_state>>
     \/ /\ pc[t] = "wu_exit"       \* ~ScopedLock: mutex_.unlock()
        /\ ttas_state' = FALSE
        /\ EndIteration(t)
        /\ UNCHANGED <<rw_has_writer, cv_ret>>
  /\ UNCHANGED <<lockKind, numIter, counter, prev, fifo_queue, rw_num_readers,
                 cv_waiters, cv_signal, cv_to_notify, others_RW>>

(***************************************************************************)
(* ReentrantLock (lamp/synchronization/reentrant_lock.h), with the mutex_  *)
(* and the ConditionVariable above.  A thread at "idle" calls lock() or    *)
(* unlock(), whether it owns the lock or not.                              *)
(***************************************************************************)

REInit ==
  /\ re_owner = Null
  /\ re_hold_count = 0
  /\ re_depth = [t \in Threads |-> 0]
  /\ re_threw = [t \in Threads |-> FALSE]

\* The condition of the waiting loop of lock().
RE_lock_wait_bug == FALSE
RE_lock_wait == re_hold_count # 0

ReentrantLock_lock(t) ==
  /\ lockKind = "Reentrant"
  /\ \/ /\ pc[t] = "idle"          \* ScopedLock lk(mutex_)
        /\ ~ttas_state
        /\ ttas_state' = TRUE
        /\ pc' = [pc EXCEPT ![t] = "re_l16"]
        /\ UNCHANGED <<iter, re_owner, re_hold_count, re_depth, cv_ret>>
     \/ /\ pc[t] = "re_l16"        \* if (owner_ == me) { hold_count_++; return; }
        /\ IF re_owner = t
             THEN /\ re_hold_count' = re_hold_count + 1
                  /\ pc' = [pc EXCEPT ![t] = "re_l25"]
             ELSE /\ pc' = [pc EXCEPT ![t] = "re_l20"]
                  /\ UNCHANGED re_hold_count
        /\ UNCHANGED <<iter, ttas_state, re_owner, re_depth, cv_ret>>
     \/ /\ pc[t] = "re_l20"        \* while (hold_count_ != 0) wait; owner_ = me; hold_count_ = 1
        /\ IF RE_lock_wait
             THEN /\ pc' = [pc EXCEPT ![t] = "cv_l77"]
                  /\ cv_ret' = [cv_ret EXCEPT ![t] = "re_l20"]
                  /\ UNCHANGED <<re_owner, re_hold_count>>
             ELSE /\ re_owner' = t
                  /\ re_hold_count' = 1
                  /\ pc' = [pc EXCEPT ![t] = "re_l25"]
                  /\ UNCHANGED cv_ret
        /\ UNCHANGED <<iter, ttas_state, re_depth>>
     \/ /\ pc[t] = "re_l25"        \* ~ScopedLock: mutex_.unlock(); lock() returns
        /\ ttas_state' = FALSE
        /\ re_depth' = [re_depth EXCEPT ![t] = re_depth[t] + 1]
        /\ EndIteration(t)
        /\ UNCHANGED <<re_owner, re_hold_count, cv_ret>>
  /\ UNCHANGED <<lockKind, numIter, counter, prev, fifo_queue, rw_num_readers,
                 rw_has_writer, cv_waiters, cv_signal, cv_to_notify, re_threw,
                 others_CV>>

\* The test on which unlock() throws std::runtime_error.
RE_unlock_fails_bug(t) == re_hold_count = 0
RE_unlock_fails(t) == re_hold_count = 0 \/ re_owner # t

ReentrantLock_unlock(t) ==
  /\ lockKind = "Reentrant"
  /\ \/ /\ pc[t] = "idle"          \* ScopedLock lk(mutex_)
        /\ ~ttas_state
        /\ ttas_state' = TRUE
        /\ pc' = [pc EXCEPT ![t] = "re_u29"]
        /\ UNCHANGED <<iter, re_hold_count, re_depth, re_threw, cv_ret>>
     \/ /\ pc[t] = "re_u29"        \* the test; hold_count_--; if (hold_count_ == 0) notify_all
        /\ IF RE_unlock_fails(t)
             THEN /\ pc' = [pc EXCEPT ![t] = "re_u30"]
                  /\ UNCHANGED <<re_hold_count, cv_ret>>
             ELSE /\ re_hold_count' = re_hold_count - 1
                  /\ IF re_hold_count - 1 = 0
                       THEN /\ pc' = [pc EXCEPT ![t] = "cv_l56"]
                            /\ cv_ret' = [cv_ret EXCEPT ![t] = "re_u36"]
                       ELSE /\ pc' = [pc EXCEPT ![t] = "re_u36"]
                            /\ UNCHANGED cv_ret
        /\ UNCHANGED <<iter, ttas_state, re_depth, re_threw>>
     \/ /\ pc[t] = "re_u30"        \* throw: ~ScopedLock unlocks mutex_ on the way out
        /\ ttas_state' = FALSE
        /\ re_threw' = [re_threw EXCEPT ![t] = TRUE]
        /\ EndIteration(t)
        /\ UNCHANGED <<re_hold_count, re_depth, cv_ret>>
     \/ /\ pc[t] = "re_u36"        \* ~ScopedLock: mutex_.unlock(); unlock() returns
        /\ ttas_state' = FALSE
        /\ re_depth' = [re_depth EXCEPT ![t] = re_depth[t] - 1]
        /\ re_threw' = [re_threw EXCEPT ![t] = FALSE]
        /\ EndIteration(t)
        /\ UNCHANGED <<re_hold_count, cv_ret>>
  /\ UNCHANGED <<lockKind, numIter, counter, prev, fifo_queue, rw_num_readers,
                 rw_has_writer, cv_waiters, cv_signal, cv_to_notify, re_owner,
                 others_CV>>

(***************************************************************************)
(* The producers and consumers of ConditionVariableTest.StressTest.  In    *)
(* each round a thread either produces (lock mutex_, push, unlock,         *)
(* notify_all) or consumes (lock mutex_, wait until the queue is not       *)
(* empty, pop, unlock, notify_all).  Only the size of the queue matters.   *)
(* The test's second way out of the wait, once everything was consumed,    *)
(* ends the consumers and is left out.                                     *)
(***************************************************************************)

SyInit ==
  /\ cvt_queue = 0
  /\ cv_signaled = [t \in DOMAIN pc |-> FALSE]
  /\ cv_erased = [t \in DOMAIN pc |-> FALSE]
  /\ cv_status = [t \in DOMAIN pc |-> "none"]
  /\ sem_init \in IF lockKind = "Semaphore" THEN 1..SemMaxInit ELSE {SemMaxInit}
  /\ sem_value = sem_init
  /\ sem_result = [t \in DOMAIN pc |-> "none"]
  /\ sem_acquired = 0
  /\ sem_released = 0

CVTest_producer(t) ==
  /\ lockKind = "CVTest"
  /\ \/ /\ pc[t] = "idle"          \* mutex_.lock()
        /\ ~ttas_state
        /\ ttas_state' = TRUE
        /\ pc' = [pc EXCEPT ![t] = "cvt_push"]
        /\ UNCHANGED <<cvt_queue, cv_ret, iter>>
     \/ /\ pc[t] = "cvt_push"      \* queue.push_back(...); produced++
        /\ cvt_queue' = cvt_queue + 1
        /\ pc' = [pc EXCEPT ![t] = "cvt_unlock"]
        /\ UNCHANGED <<ttas_state, cv_ret, iter>>
     \/ /\ pc[t] = "cvt_unlock"    \* mutex_.unlock(); cv_.notify_all()
        /\ ttas_state' = FALSE
        /\ pc' = [pc EXCEPT ![t] = "cv_l56"]
        /\ cv_ret' = [cv_ret EXCEPT ![t] = "cvt_end"]
        /\ UNCHANGED <<cvt_queue, iter>>
     \/ /\ pc[t] = "cvt_end"       \* end of the round
        /\ EndIteration(t)
        /\ UNCHANGED <<cvt_queue, ttas_state, cv_ret>>
  /\ UNCHANGED <<lockKind, numIter, counter, prev, fifo_queue, rw_num_readers,
                 rw_has_writer, cv_waiters, cv_signal, cv_to_notify, cvuVars,
                 semVars, others_Sync>>

CVTest_consumer(t) ==
  /\ lockKind = "CVTest"
  /\ \/ /\ pc[t] = "idle"          \* mutex_.lock()
        /\ ~ttas_state
        /\ ttas_state' = TRUE
        /\ pc' = [pc EXCEPT ![t] = "cvt_pred"]
        /\ UNCHANGED <<cvt_queue, cv_ret>>
     \/ /\ pc[t] = "cvt_pred"      \* cv_.wait(mutex_, pred): while (!pred()) wait(lock)
        /\ IF cvt_queue = 0
             THEN /\ pc' = [pc EXCEPT ![t] = "cv_l77"]
                  /\ cv_ret' = [cv_ret EXCEPT ![t] = "cvt_pred"]
                  /\ UNCHANGED cvt_queue
             ELSE /\ cvt_queue' = cvt_queue - 1    \* queue.pop_back(); consumed++
                  /\ pc' = [pc EXCEPT ![t] = "cvt_unlock"]
                  /\ UNCHANGED cv_ret
        /\ UNCHANGED ttas_state
  /\ UNCHANGED <<lockKind, numIter, iter, counter, prev, fifo_queue, rw_num_readers,
                 rw_has_writer, cv_waiters, cv_signal, cv_to_notify, cvuVars,
                 semVars, others_Sync>>

(***************************************************************************)
(* The threads of ConditionVariableTest.WaitForNotified, in rounds: a      *)
(* thread locks mutex_, calls wait_for and unlocks, or it calls notify_one *)
(* or notify_all.  wait_for(lock, d) is wait_until(lock, now() + d).       *)
(***************************************************************************)

CVTimed_thread(t) ==
  /\ lockKind = "CVTimed"
  /\ \/ /\ pc[t] = "idle"          \* mutex_.lock(); cv_.wait_for(mutex_, 5ms)
        /\ ~ttas_state
        /\ ttas_state' = TRUE
        /\ pc' = [pc EXCEPT ![t] = "cv_l111"]
        /\ cv_ret' = [cv_ret EXCEPT ![t] = "cvu_unlock"]
        /\ UNCHANGED iter
     \/ /\ pc[t] = "cvu_unlock"    \* mutex_.unlock()
        /\ ttas_state' = FALSE
        /\ EndIteration(t)
        /\ UNCHANGED cv_ret
     \/ /\ pc[t] = "idle"          \* cv_.notify_one() / cv_.notify_all()
        /\ \E l \in {"cv_l38", "cv_l56"} : pc' = [pc EXCEPT ![t] = l]
        /\ cv_ret' = [cv_ret EXCEPT ![t] = "cvu_end"]
        /\ UNCHANGED <<ttas_state, iter>>
     \/ /\ pc[t] = "cvu_end"       \* the notifier is done
        /\ EndIteration(t)
        /\ UNCHANGED <<ttas_state, cv_ret>>
  /\ UNCHANGED <<lockKind, numIter, counter, prev, fifo_queue, rw_num_readers,
                 rw_has_writer, cv_waiters, cv_signal, cv_to_notify, cvt_queue,
                 cvuVars, semVars, others_Sync>>

(***************************************************************************)
(* The threads of ConditionVariableTest.BasicWaitAndNotifyOne, in rounds:  *)
(* a thread locks mutex_, calls wait and unlocks, or it calls notify_one.  *)
(***************************************************************************)

CVOThreads == 1..CVONumThreads

CVOne_thread(t) ==
  /\ lockKind = "CVOne"
  /\ \/ /\ pc[t] = "idle"          \* mutex_.lock(); cv_.wait(mutex_)
        /\ ~ttas_state
        /\ ttas_state' = TRUE
        /\ pc' = [pc EXCEPT ![t] = "cv_l77"]
        /\ cv_ret' = [cv_ret EXCEPT ![t] = "cvo_unlock"]
        /\ UNCHANGED iter
     \/ /\ pc[t] = "cvo_unlock"    \* mutex_.unlock()
        /\ ttas_state' = FALSE
        /\ EndIteration(t)
        /\ UNCHANGED cv_ret
     \/ /\ pc[t] = "idle"          \* cv_.notify_one()
        /\ pc' = [pc EXCEPT ![t] = "cv_l38"]
        /\ cv_ret' = [cv_ret EXCEPT ![t] = "cvo_end"]
        /\ UNCHANGED <<ttas_state, iter>>
     \/ /\ pc[t] = "cvo_end"       \* the notifier is done
        /\ EndIteration(t)
        /\ UNCHANGED <<ttas_state, cv_ret>>
  /\ UNCHANGED <<lockKind, numIter, counter, prev, fifo_queue, rw_num_readers,
                 rw_has_writer, cv_waiters, cv_signal, cv_to_notify, cvt_queue,
                 cvuVars, semVars, others_Sync>>

(***************************************************************************)
(* Semaphore (semaphore.h) under the operations of SemaphoreTest.StressTest:*)
(* acquire, try_acquire, try_acquire_for and try_acquire(2), each followed *)
(* by the matching release when it succeeded.  Every method runs inside    *)
(* ScopedLock<TTASLock> lk(mutex_); value_ is touched only under mutex_.   *)
(* A label sem_XN is line N of the header.  The histories sem_acquired and *)
(* sem_released are updated when a call returns, by what it returns.       *)
(***************************************************************************)

Semaphore_acquire(t) ==
  /\ lockKind = "Semaphore"
  /\ \/ /\ pc[t] = "idle"          \* ScopedLock lk(mutex_)
        /\ ~ttas_state
        /\ ttas_state' = TRUE
        /\ pc' = [pc EXCEPT ![t] = "sem_a16"]
        /\ UNCHANGED <<sem_value, sem_result, sem_acquired, cv_ret>>
     \/ /\ pc[t] = "sem_a16"       \* while (value_ == 0) cv_.wait(mutex_); value_--
        /\ IF sem_value = 0
             THEN /\ pc' = [pc EXCEPT ![t] = "cv_l77"]
                  /\ cv_ret' = [cv_ret EXCEPT ![t] = "sem_a16"]
                  /\ UNCHANGED sem_value
             ELSE /\ sem_value' = sem_value - 1
                  /\ pc' = [pc EXCEPT ![t] = "sem_a20"]
                  /\ UNCHANGED cv_ret
        /\ UNCHANGED <<ttas_state, sem_result, sem_acquired>>
     \/ /\ pc[t] = "sem_a20"       \* return; the test goes on to release()
        /\ ttas_state' = FALSE
        /\ sem_result' = [sem_result EXCEPT ![t] = "true"]
        /\ sem_acquired' = sem_acquired + 1
        /\ pc' = [pc EXCEPT ![t] = "sem_r23"]
        /\ UNCHANGED <<sem_value, cv_ret>>
  /\ UNCHANGED <<lockKind, numIter, iter, counter, prev, fifo_queue, rw_num_readers,
                 rw_has_writer, cv_waiters, cv_signal, cv_to_notify, cvt_queue,
                 cvuVars, sem_init, sem_released, others_Sync>>

\* release() and release(int count)
Semaphore_release(t) ==
  /\ lockKind = "Semaphore"
  /\ \/ /\ pc[t] \in {"sem_r23", "sem_r73"}    \* ScopedLock lk(mutex_)
        /\ ~ttas_state
        /\ ttas_state' = TRUE
        /\ pc' = [pc EXCEPT ![t] = IF pc[t] = "sem_r23" THEN "sem_r24" ELSE "sem_r74"]
        /\ UNCHANGED <<sem_value, sem_released, cv_ret, iter>>
     \/ /\ pc[t] = "sem_r24"       \* value_++; cv_.notify_all()
        /\ sem_value' = sem_value + 1
        /\ pc' = [pc EXCEPT ![t] = "cv_l56"]
        /\ cv_ret' = [cv_ret EXCEPT ![t] = "sem_r26"]
        /\ UNCHANGED <<ttas_state, sem_released, iter>>
     \/ /\ pc[t] = "sem_r74"       \* value_ += count; cv_.notify_all()
        /\ sem_value' = sem_value + SemCount
        /\ pc' = [pc EXCEPT ![t] = "cv_l56"]
        /\ cv_ret' = [cv_ret EXCEPT ![t] = "sem_r76"]
        /\ UNCHANGED <<ttas_state, sem_released, iter>>
     \/ /\ pc[t] \in {"sem_r26", "sem_r76"}    \* return
        /\ ttas_state' = FALSE
        /\ sem_released' = sem_released + (IF pc[t] = "sem_r26" THEN 1 ELSE SemCount)
        /\ EndIteration(t)
        /\ UNCHANGED <<sem_value, cv_ret>>
  /\ UNCHANGED <<lockKind, numIter, counter, prev, fifo_queue, rw_num_readers,
                 rw_has_writer, cv_waiters, cv_signal, cv_to_notify, cvt_queue,
                 cvuVars, sem_init, sem_result, sem_acquired, others_Sync>>

\* The test of try_acquire(int count).
Sem_enough_bug == sem_value > 0
Sem_enough == sem_value >= SemCount

\* try_acquire() and try_acquire(int count)
Semaphore_try_acquire(t) ==
  /\ lockKind = "Semaphore"
  /\ \/ /\ pc[t] = "idle"          \* ScopedLock lk(mutex_)
        /\ ~ttas_state
        /\ ttas_state' = TRUE
        /\ \E l \in {"sem_t31", "sem_t84"} : pc' = [pc EXCEPT ![t] = l]
        /\ UNCHANGED <<sem_value, sem_result, sem_acquired, iter>>
     \/ /\ pc[t] = "sem_t31"       \* if (value_ > 0) { value_--; return true; } return false
        /\ IF sem_value > 0
             THEN /\ sem_value' = sem_value - 1
                  /\ pc' = [pc EXCEPT ![t] = "sem_t33"]
             ELSE /\ pc' = [pc EXCEPT ![t] = "sem_t35"]
                  /\ UNCHANGED sem_value
        /\ UNCHANGED <<ttas_state, sem_result, sem_acquired, iter>>
     \/ /\ pc[t] = "sem_t84"       \* if (value_ >= count) { value_ -= count; return true; } return false
        /\ IF Sem_enough
             THEN /\ sem_value' = sem_value - SemCount
                  /\ pc' = [pc EXCEPT ![t] = "sem_t86"]
             ELSE /\ pc' = [pc EXCEPT ![t] = "sem_t88"]
                  /\ UNCHANGED sem_value
        /\ UNCHANGED <<ttas_state, sem_result, sem_acquired, iter>>
     \/ /\ pc[t] \in {"sem_t33", "sem_t86"}    \* return true; the test goes on to release
        /\ ttas_state' = FALSE
        /\ sem_result' = [sem_result EXCEPT ![t] = "true"]
        /\ sem_acquired' = sem_acquired + (IF pc[t] = "sem_t33" THEN 1 ELSE SemCount)
        /\ pc' = [pc EXCEPT ![t] = IF pc[t] = "sem_t33" THEN "sem_r23" ELSE "sem_r73"]
        /\ UNCHANGED <<sem_value, iter>>
     \/ /\ pc[t] \in {"sem_t35", "sem_t88"}    \* return false
        /\ ttas_state' = FALSE
        /\ sem_result' = [sem_result EXCEPT ![t] = "false"]
        /\ EndIteration(t)
        /\ UNCHANGED <<sem_value, sem_acquired>>
  /\ UNCHANGED <<lockKind, numIter, counter, prev, fifo_queue, rw_num_readers,
                 rw_has_writer, cv_waiters, cv_signal, cv_to_notify, cv_ret, cvt_queue,
                 cvuVars, sem_init, sem_released, others_Sync>>

\* end_time may be reached at any moment.
Semaphore_try_acquire_for(t) ==
  /\ lockKind = "Semaphore"
  /\ \/ /\ pc[t] = "idle"          \* ScopedLock lk(mutex_)
        /\ ~ttas_state
        /\ ttas_state' = TRUE
        /\ pc' = [pc EXCEPT ![t] = "sem_f45"]
        /\ UNCHANGED <<sem_value, sem_result, sem_acquired, cv_ret, iter>>
     \/ /\ pc[t] = "sem_f45"       \* value_ != 0: value_--
        /\ sem_value # 0
        /\ sem_value' = sem_value - 1
        /\ pc' = [pc EXCEPT ![t] = "sem_f58"]
        /\ UNCHANGED <<ttas_state, sem_result, sem_acquired, cv_ret, iter>>
     \/ /\ pc[t] = "sem_f45"       \* value_ == 0 and now >= end_time
        /\ sem_value = 0
        /\ pc' = [pc EXCEPT ![t] = "sem_f48"]
        /\ UNCHANGED <<ttas_state, sem_value, sem_result, sem_acquired, cv_ret, iter>>
     \/ /\ pc[t] = "sem_f45"       \* value_ == 0 and now < end_time: cv_.wait_for
        /\ sem_value = 0
        /\ pc' = [pc EXCEPT ![t] = "cv_l111"]
        /\ cv_ret' = [cv_ret EXCEPT ![t] = "sem_f52"]
        /\ UNCHANGED <<ttas_state, sem_value, sem_result, sem_acquired, iter>>
     \/ /\ pc[t] = "sem_f52"       \* == CVStatus::kTimeout ?
        /\ pc' = [pc EXCEPT ![t] = IF cv_status[t] = "Timeout" THEN "sem_f48" ELSE "sem_f45"]
        /\ UNCHANGED <<ttas_state, sem_value, sem_result, sem_acquired, cv_ret, iter>>
     \/ /\ pc[t] = "sem_f48"       \* return false
        /\ ttas_state' = FALSE
        /\ sem_result' = [sem_result EXCEPT ![t] = "timeout"]
        /\ EndIteration(t)
        /\ UNCHANGED <<sem_value, sem_acquired, cv_ret>>
     \/ /\ pc[t] = "sem_f58"       \* return true; the test goes on to release()
        /\ ttas_state' = FALSE
        /\ sem_result' = [sem_result EXCEPT ![t] = "true"]
        /\ sem_acquired' = sem_acquired + 1
        /\ pc' = [pc EXCEPT ![t] = "sem_r23"]
        /\ UNCHANGED <<sem_value, cv_ret, iter>>
  /\ UNCHANGED <<lockKind, numIter, counter, prev, fifo_queue, rw_num_readers,
                 rw_has_writer, cv_waiters, cv_signal, cv_to_notify, cvt_queue,
                 cvuVars, sem_init, sem_released, others_Sync>>

(***************************************************************************)
(* The list-based sets (lamp/list).  A node is a number; the nodes that    *)
(* add allocates are 1, 2, ... in the order of allocation, the sentinels   *)
(* come after them.  The key of the head sentinel is 0, the smallest       *)
(* size_t; the key of the tail and of the sentinel of the garbage list is  *)
(* LS_MaxKeyValue, which stands for the largest.  The items are their own  *)
(* keys.  Each test starts from a list that holds the keys 1..LInitial,    *)
(* and every thread calls LOps methods, each add, remove or contains of    *)
(* any key.                                                                *)
(***************************************************************************)

ListThreads == 1..LThreads
LS_Keys == 1..LMaxKey
LS_MaxKeyValue == LMaxKey + 1
LS_MaxAlloc == LInitial + LThreads * LOps
LS_Head == LS_MaxAlloc + 1
LS_Tail == LS_MaxAlloc + 2
LS_GTail == LS_MaxAlloc + 3
LS_Nodes == 1..LS_GTail

LSInit ==
  /\ ls_key = [n \in LS_Nodes |->
                 IF n <= LInitial THEN n
                 ELSE IF n \in {LS_Tail, LS_GTail} THEN LS_MaxKeyValue ELSE 0]
  /\ ls_next = [n \in LS_Nodes |->
                  IF n < LInitial THEN n + 1
                  ELSE IF n = LInitial THEN LS_Tail
                  ELSE IF n = LS_Head THEN (IF LInitial = 0 THEN LS_Tail ELSE 1)
                  ELSE Null]
  /\ ls_marked = [n \in LS_Nodes |-> FALSE]
  /\ ls_lock = [n \in LS_Nodes |-> Null]
  /\ ls_garbage = IF lockKind \in {"LazyList", "OptimisticList"} THEN LS_GTail ELSE Null
  /\ ls_next_deleted = [n \in LS_Nodes |-> Null]
  /\ ls_nalloc = LInitial
  /\ ls_op = [t \in DOMAIN pc |-> "none"]
  /\ ls_k = [t \in DOMAIN pc |-> 0]
  /\ ls_pred = [t \in DOMAIN pc |-> Null]
  /\ ls_curr = [t \in DOMAIN pc |-> Null]
  /\ ls_succ = [t \in DOMAIN pc |-> Null]
  /\ ls_node = [t \in DOMAIN pc |-> Null]
  /\ ls_ret = [t \in DOMAIN pc |-> FALSE]
  /\ ls_in = [t \in DOMAIN pc |-> FALSE]
  /\ ls_out = [t \in DOMAIN pc |-> FALSE]
  /\ ls_net = [k \in LS_Keys |-> 0]

\* The nodes on the path of next_ pointers that starts at node n.
RECURSIVE LS_Chain(_, _)
LS_Chain(n, fuel) ==
  IF n = Null \/ fuel = 0 THEN {} ELSE {n} \cup LS_Chain(ls_next[n], fuel - 1)

\* The set the list stands for: the keys of the unmarked nodes that can be
\* reached from head_.
LS_Abs ==
  {k \in LS_Keys :
     \E n \in LS_Chain(LS_Head, LS_GTail) : ls_key[n] = k /\ ~ls_marked[n]}

\* Thread t is between two calls.
LS_Quiet(t) == pc[t] \in {"idle", "done"}

\* The histories of the calls, brought up to date by every step.
LS_Observe ==
  /\ ls_in' = [t \in DOMAIN pc |->
                 IF LS_Quiet(t) /\ pc'[t] \in {"idle", "done"} THEN ls_in[t]
                 ELSE (~LS_Quiet(t) /\ ls_in[t]) \/ ls_k'[t] \in LS_Abs']
  /\ ls_out' = [t \in DOMAIN pc |->
                  IF LS_Quiet(t) /\ pc'[t] \in {"idle", "done"} THEN ls_out[t]
                  ELSE (~LS_Quiet(t) /\ ls_out[t]) \/ ls_k'[t] \notin LS_Abs']

\* Thread t calls method op with an item of its choice and goes to label l.
LS_call(t, op, l) ==
  /\ pc[t] = "idle"
  /\ ls_op' = [ls_op EXCEPT ![t] = op]
  /\ \E k \in LS_Keys : ls_k' = [ls_k EXCEPT ![t] = k]
  /\ pc' = [pc EXCEPT ![t] = l]
  /\ UNCHANGED <<iter, ls_ret, ls_net>>

\* The method of thread t returns r; the test counts the successful updates.
LS_return(t, r) ==
  /\ ls_ret' = [ls_ret EXCEPT ![t] = r]
  /\ ls_net' = IF r /\ ls_op[t] = "add" THEN [ls_net EXCEPT ![ls_k[t]] = @ + 1]
               ELSE IF r /\ ls_op[t] = "remove" THEN [ls_net EXCEPT ![ls_k[t]] = @ - 1]
               ELSE ls_net
  /\ EndIteration(t)
  /\ UNCHANGED <<ls_op, ls_k>>

(***************************************************************************)
(* LockFreeList (lock_free_list.h).  ls_marked[n] is the mark bit of the   *)
(* AtomicMarkablePtr next_ of node n.  A label lf_lN is line N.            *)
(***************************************************************************)

\* compare_and_swap(exp, ..., false, ...) on the next_ of node n succeeds.
LF_cas_ok_bug(n, exp) == ls_next[n] = exp
LF_cas_ok(n, exp) == ls_next[n] = exp /\ ~ls_marked[n]

\* marked of [succ, marked] = curr->next_->get(), for curr = n.
LF_marked_bug(n) == FALSE
LF_marked(n) == ls_marked[n]

LockFreeList_find(t) ==
  /\ lockKind = "LockFreeList"
  /\ \/ /\ pc[t] = "lf_l222"       \* pred = head; curr = pred->next_->get_ptr()
        /\ ls_pred' = [ls_pred EXCEPT ![t] = LS_Head]
        /\ ls_curr' = [ls_curr EXCEPT ![t] = ls_next[LS_Head]]
        /\ pc' = [pc EXCEPT ![t] = "lf_l228"]
        /\ UNCHANGED <<ls_succ, ls_next, ls_garbage, ls_next_deleted>>
     \/ /\ pc[t] = "lf_l228"       \* [succ, marked] = curr->next_->get()
        /\ ls_succ' = [ls_succ EXCEPT ![t] = ls_next[ls_curr[t]]]
        /\ IF LF_marked(ls_curr[t])
             THEN /\ pc' = [pc EXCEPT ![t] = "lf_l235"]
                  /\ UNCHANGED <<ls_pred, ls_curr>>
             ELSE IF ls_key[ls_curr[t]] >= ls_k[t]
               THEN /\ pc' = [pc EXCEPT ![t] = IF ls_op[t] = "add" THEN "lf_l110" ELSE "lf_l151"]
                    /\ UNCHANGED <<ls_pred, ls_curr>>
               ELSE /\ ls_pred' = [ls_pred EXCEPT ![t] = ls_curr[t]]
                    /\ ls_curr' = [ls_curr EXCEPT ![t] = ls_next[ls_curr[t]]]
                    /\ UNCHANGED pc
        /\ UNCHANGED <<ls_next, ls_garbage, ls_next_deleted>>
     \/ /\ pc[t] = "lf_l235"       \* pred->next_->compare_and_swap(curr, succ, false, false)
        /\ IF LF_cas_ok(ls_pred[t], ls_curr[t])
             THEN /\ ls_next' = [ls_next EXCEPT ![ls_pred[t]] = ls_succ[t]]
                  /\ pc' = [pc EXCEPT ![t] = "lf_l240"]
             ELSE /\ pc' = [pc EXCEPT ![t] = "lf_l222"]      \* goto retry
                  /\ UNCHANGED ls_next
        /\ UNCHANGED <<ls_pred, ls_curr, ls_succ, ls_garbage, ls_next_deleted>>
     \/ /\ pc[t] = "lf_l240"       \* add_to_garbage(curr); curr = succ
        /\ ls_next_deleted' = [ls_next_deleted EXCEPT ![ls_curr[t]] = ls_garbage]
        /\ ls_garbage' = ls_curr[t]
        /\ ls_curr' = [ls_curr EXCEPT ![t] = ls_succ[t]]
        /\ pc' = [pc EXCEPT ![t] = "lf_l228"]
        /\ UNCHANGED <<ls_pred, ls_succ, ls_next>>
  /\ UNCHANGED <<lockKind, numIter, iter, counter, prev, fifo_queue, ls_key, ls_marked,
                 ls_lock, ls_nalloc, ls_op, ls_k, ls_node, ls_ret, ls_net, others_List>>
  /\ LS_Observe

LockFreeList_add(t) ==
  /\ lockKind = "LockFreeList"
  /\ \/ /\ LS_call(t, "add", "lf_l222")
        /\ UNCHANGED <<ls_key, ls_next, ls_nalloc, ls_node>>
     \/ /\ pc[t] = "lf_l110"       \* if (curr != tail_ && curr->key_ == key) return false
        /\ IF ls_curr[t] # LS_Tail /\ ls_key[ls_curr[t]] = ls_k[t]
             THEN LS_return(t, FALSE)
             ELSE /\ pc' = [pc EXCEPT ![t] = "lf_l120"]
                  /\ UNCHANGED <<iter, ls_op, ls_k, ls_ret, ls_net>>
        /\ UNCHANGED <<ls_key, ls_next, ls_nalloc, ls_node>>
     \/ /\ pc[t] = "lf_l120"       \* node = new Node(key, item) with next_ = curr; CAS pred->next_
        /\ IF LF_cas_ok(ls_pred[t], ls_curr[t])
             THEN /\ ls_nalloc' = ls_nalloc + 1
                  /\ ls_node' = [ls_node EXCEPT ![t] = ls_nalloc + 1]
                  /\ ls_key' = [ls_key EXCEPT ![ls_nalloc + 1] = ls_k[t]]
                  /\ ls_next' = [ls_next EXCEPT ![ls_nalloc + 1] = ls_curr[t],
                                                ![ls_pred[t]] = ls_nalloc + 1]
                  /\ LS_return(t, TRUE)
             ELSE /\ pc' = [pc EXCEPT ![t] = "lf_l222"]      \* delete node; retry
                  /\ UNCHANGED <<iter, ls_op, ls_k, ls_ret, ls_net, ls_key, ls_next,
                                 ls_nalloc, ls_node>>
  /\ UNCHANGED <<lockKind, numIter, counter, prev, fifo_queue, ls_marked, ls_lock,
                 ls_garbage, ls_next_deleted, ls_pred, ls_curr, ls_succ, others_List>>
  /\ LS_Observe

LockFreeList_remove(t) ==
  /\ lockKind = "LockFreeList"
  /\ \/ /\ LS_call(t, "remove", "lf_l222")
        /\ UNCHANGED <<ls_next, ls_marked, ls_garbage, ls_next_deleted, ls_succ>>
     \/ /\ pc[t] = "lf_l151"       \* if (curr == tail_ || curr->key_ != key) return false
        /\ IF ls_curr[t] = LS_Tail \/ ls_key[ls_curr[t]] # ls_k[t]
             THEN LS_return(t, FALSE)
             ELSE /\ pc' = [pc EXCEPT ![t] = "lf_l155"]
                  /\ UNCHANGED <<iter, ls_op, ls_k, ls_ret, ls_net>>
        /\ UNCHANGED <<ls_next, ls_marked, ls_garbage, ls_next_deleted, ls_succ>>
     \/ /\ pc[t] = "lf_l155"       \* succ = curr->next_->get_ptr()
        /\ ls_succ' = [ls_succ EXCEPT ![t] = ls_next[ls_curr[t]]]
        /\ pc' = [pc EXCEPT ![t] = "lf_l159"]
        /\ UNCHANGED <<iter, ls_op, ls_k, ls_ret, ls_net, ls_next, ls_marked,
                       ls_garbage, ls_next_deleted>>
     \/ /\ pc[t] = "lf_l159"       \* curr->next_->compare_and_swap(succ, succ, false, true)
        /\ IF LF_cas_ok(ls_curr[t], ls_succ[t])
             THEN /\ ls_marked' = [ls_marked EXCEPT ![ls_curr[t]] = TRUE]
                  /\ pc' = [pc EXCEPT ![t] = "lf_l168"]
             ELSE /\ pc' = [pc EXCEPT ![t] = "lf_l222"]      \* continue
                  /\ UNCHANGED ls_marked
        /\ UNCHANGED <<iter, ls_op, ls_k, ls_ret, ls_net, ls_next, ls_garbage,
                       ls_next_deleted, ls_succ>>
     \/ /\ pc[t] = "lf_l168"       \* pred->next_->compare_and_swap(curr, succ, false, false)
        /\ IF LF_cas_ok(ls_pred[t], ls_curr[t])
             THEN /\ ls_next' = [ls_next EXCEPT ![ls_pred[t]] = ls_succ[t]]
                  /\ pc' = [pc EXCEPT ![t] = "lf_l173"]
                  /\ UNCHANGED <<iter, ls_op, ls_k, ls_ret, ls_net>>
             ELSE /\ LS_return(t, TRUE)
                  /\ UNCHANGED ls_next
        /\ UNCHANGED <<ls_marked, ls_garbage, ls_next_deleted, ls_succ>>
     \/ /\ pc[t] = "lf_l173"       \* add_to_garbage(curr); return true
        /\ ls_next_deleted' = [ls_next_deleted EXCEPT ![ls_curr[t]] = ls_garbage]
        /\ ls_garbage' = ls_curr[t]
        /\ LS_return(t, TRUE)
        /\ UNCHANGED <<ls_next, ls_marked, ls_succ>>
  /\ UNCHANGED <<lockKind, numIter, counter, prev, fifo_queue, ls_key, ls_lock,
                 ls_nalloc, ls_pred, ls_curr, ls_node, others_List>>
  /\ LS_Observe

LockFreeList_contains(t) ==
  /\ lockKind = "LockFreeList"
  /\ \/ /\ LS_call(t, "contains", "lf_l192")
        /\ UNCHANGED ls_curr
     \/ /\ pc[t] = "lf_l192"       \* curr = head_->next_->get_ptr()
        /\ ls_curr' = [ls_curr EXCEPT ![t] = ls_next[LS_Head]]
        /\ pc' = [pc EXCEPT ![t] = "lf_l195"]
        /\ UNCHANGED <<iter, ls_op, ls_k, ls_ret, ls_net>>
     \/ /\ pc[t] = "lf_l195"       \* while (curr->key_ < key) curr = curr->next_->get_ptr()
        /\ ls_key[ls_curr[t]] < ls_k[t]
        /\ ls_curr' = [ls_curr EXCEPT ![t] = ls_next[ls_curr[t]]]
        /\ UNCHANGED <<pc, iter, ls_op, ls_k, ls_ret, ls_net>>
     \/ /\ pc[t] = "lf_l195"       \* return curr != tail_ && curr->key_ == key && !is_marked
        /\ ls_key[ls_curr[t]] >= ls_k[t]
        /\ LS_return(t, /\ ls_curr[t] # LS_Tail
                        /\ ls_key[ls_curr[t]] = ls_k[t]
                        /\ ~ls_marked[ls_curr[t]])
        /\ UNCHANGED ls_curr
  /\ UNCHANGED <<lockKind, numIter, counter, prev, fifo_queue, lsHeap, ls_pred,
                 ls_succ, ls_node, others_List>>
  /\ LS_Observe

(***************************************************************************)
(* LazyList (lazy_list.h).  ls_marked[n] is marked_ of node n, ls_lock[n]  *)
(* the thread that holds its mutex_.  remove puts the node it unlinked on  *)
(* garbage_list_, linking it through its next_.  A label lz_lN is line N.  *)
(***************************************************************************)

LazyList_search(t) ==
  /\ lockKind = "LazyList"
  /\ \/ /\ pc[t] = "lz_l116"       \* pred = head_; curr = pred->next_
        /\ ls_pred' = [ls_pred EXCEPT ![t] = LS_Head]
        /\ ls_curr' = [ls_curr EXCEPT ![t] = ls_next[LS_Head]]
        /\ pc' = [pc EXCEPT ![t] = "lz_l119"]
        /\ UNCHANGED ls_lock
     \/ /\ pc[t] = "lz_l119"       \* while (curr->key_ < key) { pred = curr; curr = curr->next_; }
        /\ IF ls_key[ls_curr[t]] < ls_k[t]
             THEN /\ ls_pred' = [ls_pred EXCEPT ![t] = ls_curr[t]]
                  /\ ls_curr' = [ls_curr EXCEPT ![t] = ls_next[ls_curr[t]]]
                  /\ UNCHANGED pc
             ELSE /\ pc' = [pc EXCEPT ![t] = "lz_l124"]
                  /\ UNCHANGED <<ls_pred, ls_curr>>
        /\ UNCHANGED ls_lock
     \/ /\ pc[t] = "lz_l124"       \* pred->lock()
        /\ ls_lock[ls_pred[t]] = Null
        /\ ls_lock' = [ls_lock EXCEPT ![ls_pred[t]] = t]
        /\ pc' = [pc EXCEPT ![t] = "lz_l125"]
        /\ UNCHANGED <<ls_pred, ls_curr>>
     \/ /\ pc[t] = "lz_l125"       \* curr->lock()
        /\ ls_lock[ls_curr[t]] = Null
        /\ ls_lock' = [ls_lock EXCEPT ![ls_curr[t]] = t]
        /\ pc' = [pc EXCEPT ![t] = "lz_l127"]
        /\ UNCHANGED <<ls_pred, ls_curr>>
     \/ /\ pc[t] = "lz_l127"       \* validate: !pred->marked_ && !curr->marked_ && pred->next_ == curr
        /\ pc' = [pc EXCEPT ![t] =
                    IF /\ ~ls_marked[ls_pred[t]]
                       /\ ~ls_marked[ls_curr[t]]
                       /\ ls_next[ls_pred[t]] = ls_curr[t]
                      THEN (IF ls_op[t] = "add" THEN "lz_l67" ELSE "lz_l86")
                      ELSE "lz_l131"]
        /\ UNCHANGED <<ls_pred, ls_curr, ls_lock>>
     \/ /\ pc[t] = "lz_l131"       \* pred->unlock()
        /\ ls_lock' = [ls_lock EXCEPT ![ls_pred[t]] = Null]
        /\ pc' = [pc EXCEPT ![t] = "lz_l132"]
        /\ UNCHANGED <<ls_pred, ls_curr>>
     \/ /\ pc[t] = "lz_l132"       \* curr->unlock(); search again
        /\ ls_lock' = [ls_lock EXCEPT ![ls_curr[t]] = Null]
        /\ pc' = [pc EXCEPT ![t] = "lz_l116"]
        /\ UNCHANGED <<ls_pred, ls_curr>>
  /\ UNCHANGED <<lockKind, numIter, iter, counter, prev, fifo_queue, ls_key, ls_next,
                 ls_marked, ls_garbage, ls_next_deleted, ls_nalloc, ls_op, ls_k,
                 ls_succ, ls_node, ls_ret, ls_net, others_List>>
  /\ LS_Observe

\* search has returned curr->key_ == key, with pred and curr locked.
LazyList_add(t) ==
  /\ lockKind = "LazyList"
  /\ \/ /\ LS_call(t, "add", "lz_l116")
        /\ UNCHANGED <<ls_key, ls_next, ls_lock, ls_nalloc, ls_node>>
     \/ /\ pc[t] = "lz_l67"        \* if (!key_exists) { node->next_ = curr; pred->next_ = node; }
        /\ IF ls_key[ls_curr[t]] # ls_k[t]
             THEN /\ ls_nalloc' = ls_nalloc + 1
                  /\ ls_node' = [ls_node EXCEPT ![t] = ls_nalloc + 1]
                  /\ ls_key' = [ls_key EXCEPT ![ls_nalloc + 1] = ls_k[t]]
                  /\ ls_next' = [ls_next EXCEPT ![ls_nalloc + 1] = ls_curr[t],
                                                ![ls_pred[t]] = ls_nalloc + 1]
             ELSE UNCHANGED <<ls_key, ls_next, ls_nalloc, ls_node>>
        /\ pc' = [pc EXCEPT ![t] = "lz_l76"]
        /\ UNCHANGED <<iter, ls_op, ls_k, ls_ret, ls_net, ls_lock>>
     \/ /\ pc[t] = "lz_l76"        \* curr->unlock()
        /\ ls_lock' = [ls_lock EXCEPT ![ls_curr[t]] = Null]
        /\ pc' = [pc EXCEPT ![t] = "lz_l77"]
        /\ UNCHANGED <<iter, ls_op, ls_k, ls_ret, ls_net, ls_key, ls_next, ls_nalloc,
                       ls_node>>
     \/ /\ pc[t] = "lz_l77"        \* pred->unlock(); return !key_exists
        /\ ls_lock' = [ls_lock EXCEPT ![ls_pred[t]] = Null]
        /\ LS_return(t, ls_key[ls_curr[t]] # ls_k[t])
        /\ UNCHANGED <<ls_key, ls_next, ls_nalloc, ls_node>>
  /\ UNCHANGED <<lockKind, numIter, counter, prev, fifo_queue, ls_marked, ls_garbage,
                 ls_next_deleted, ls_pred, ls_curr, ls_succ, others_List>>
  /\ LS_Observe

LazyList_remove(t) ==
  /\ lockKind = "LazyList"
  /\ \/ /\ LS_call(t, "remove", "lz_l116")
        /\ UNCHANGED <<ls_next, ls_marked, ls_lock, ls_garbage>>
     \/ /\ pc[t] = "lz_l86"        \* if (key_exists) curr->marked_ = true
        /\ IF ls_key[ls_curr[t]] = ls_k[t]
             THEN /\ ls_marked' = [ls_marked EXCEPT ![ls_curr[t]] = TRUE]
                  /\ pc' = [pc EXCEPT ![t] = "lz_l90"]
             ELSE /\ pc' = [pc EXCEPT ![t] = "lz_l97"]
                  /\ UNCHANGED ls_marked
        /\ UNCHANGED <<iter, ls_op, ls_k, ls_ret, ls_net, ls_next, ls_lock, ls_garbage>>
     \/ /\ pc[t] = "lz_l90"        \* pred->next_ = curr->next_
        /\ ls_next' = [ls_next EXCEPT ![ls_pred[t]] = ls_next[ls_curr[t]]]
        /\ pc' = [pc EXCEPT ![t] = "lz_l92"]
        /\ UNCHANGED <<iter, ls_op, ls_k, ls_ret, ls_net, ls_marked, ls_lock, ls_garbage>>
     \/ /\ pc[t] = "lz_l92"        \* curr->next_ = garbage_list_.load()
        /\ ls_next' = [ls_next EXCEPT ![ls_curr[t]] = ls_garbage]
        /\ pc' = [pc EXCEPT ![t] = "lz_l93"]
        /\ UNCHANGED <<iter, ls_op, ls_k, ls_ret, ls_net, ls_marked, ls_lock, ls_garbage>>
     \/ /\ pc[t] = "lz_l93"        \* garbage_list_.compare_exchange_weak(curr->next_, curr)
        /\ IF ls_garbage = ls_next[ls_curr[t]]
             THEN /\ ls_garbage' = ls_curr[t]
                  /\ pc' = [pc EXCEPT ![t] = "lz_l97"]
                  /\ UNCHANGED ls_next
             ELSE /\ ls_next' = [ls_next EXCEPT ![ls_curr[t]] = ls_garbage]
                  /\ UNCHANGED <<pc, ls_garbage>>
        /\ UNCHANGED <<iter, ls_op, ls_k, ls_ret, ls_net, ls_marked, ls_lock>>
     \/ /\ pc[t] = "lz_l97"        \* curr->unlock()
        /\ ls_lock' = [ls_lock EXCEPT ![ls_curr[t]] = Null]
        /\ pc' = [pc EXCEPT ![t] = "lz_l98"]
        /\ UNCHANGED <<iter, ls_op, ls_k, ls_ret, ls_net, ls_next, ls_marked, ls_garbage>>
     \/ /\ pc[t] = "lz_l98"        \* pred->unlock(); return key_exists
        /\ ls_lock' = [ls_lock EXCEPT ![ls_pred[t]] = Null]
        /\ LS_return(t, ls_key[ls_curr[t]] = ls_k[t])
        /\ UNCHANGED <<ls_next, ls_marked, ls_garbage>>
  /\ UNCHANGED <<lockKind, numIter, counter, prev, fifo_queue, ls_key, ls_next_deleted,
                 ls_nalloc, ls_pred, ls_curr, ls_succ, ls_node, others_List>>
  /\ LS_Observe

LazyList_contains(t) ==
  /\ lockKind = "LazyList"
  /\ \/ /\ LS_call(t, "contains", "lz_l106")     \* curr = head_
        /\ ls_curr' = [ls_curr EXCEPT ![t] = LS_Head]
     \/ /\ pc[t] = "lz_l106"       \* while (curr->key_ < key) curr = curr->next_
        /\ ls_key[ls_curr[t]] < ls_k[t]
        /\ ls_curr' = [ls_curr EXCEPT ![t] = ls_next[ls_curr[t]]]
        /\ UNCHANGED <<pc, iter, ls_op, ls_k, ls_ret, ls_net>>
     \/ /\ pc[t] = "lz_l106"       \* return curr->key_ == key && !curr->marked_
        /\ ls_key[ls_curr[t]] >= ls_k[t]
        /\ LS_return(t, ls_key[ls_curr[t]] = ls_k[t] /\ ~ls_marked[ls_curr[t]])
        /\ UNCHANGED ls_curr
  /\ UNCHANGED <<lockKind, numIter, counter, prev, fifo_queue, lsHeap, ls_pred,
                 ls_succ, ls_node, others_List>>
  /\ LS_Observe

(***************************************************************************)
(* OptimisticList (lamp/list/optimistic_list.h).  No marks; validate walks *)
(* the list again from head_ with the thread's ls_node.  remove puts the   *)
(* node it unlinked on garbage_list_, linking it through its next_.  A     *)
(* label op_lN is line N.                                                  *)
(***************************************************************************)

OptimisticList_search(t) ==
  /\ lockKind = "OptimisticList"
  /\ \/ /\ pc[t] = "op_l162"       \* pred = head_; curr = pred->next_
        /\ ls_pred' = [ls_pred EXCEPT ![t] = LS_Head]
        /\ ls_curr' = [ls_curr EXCEPT ![t] = ls_next[LS_Head]]
        /\ pc' = [pc EXCEPT ![t] = "op_l166"]
        /\ UNCHANGED <<ls_lock, ls_node>>
     \/ /\ pc[t] = "op_l166"       \* while (curr->key_ < key) { pred = curr; curr = curr->next_; }
        /\ IF ls_key[ls_curr[t]] < ls_k[t]
             THEN /\ ls_pred' = [ls_pred EXCEPT ![t] = ls_curr[t]]
                  /\ ls_curr' = [ls_curr EXCEPT ![t] = ls_next[ls_curr[t]]]
                  /\ UNCHANGED pc
             ELSE /\ pc' = [pc EXCEPT ![t] = "op_l172"]
                  /\ UNCHANGED <<ls_pred, ls_curr>>
        /\ UNCHANGED <<ls_lock, ls_node>>
     \/ /\ pc[t] = "op_l172"       \* pred->lock()
        /\ ls_lock[ls_pred[t]] = Null
        /\ ls_lock' = [ls_lock EXCEPT ![ls_pred[t]] = t]
        /\ pc' = [pc EXCEPT ![t] = "op_l173"]
        /\ UNCHANGED <<ls_pred, ls_curr, ls_node>>
     \/ /\ pc[t] = "op_l173"       \* curr->lock(); validate: node = head_
        /\ ls_lock[ls_curr[t]] = Null
        /\ ls_lock' = [ls_lock EXCEPT ![ls_curr[t]] = t]
        /\ ls_node' = [ls_node EXCEPT ![t] = LS_Head]
        /\ pc' = [pc EXCEPT ![t] = "op_l200"]
        /\ UNCHANGED <<ls_pred, ls_curr>>
     \/ /\ pc[t] = "op_l200"       \* while (node->key_ <= pred->key_) ...
        /\ IF ls_key[ls_node[t]] <= ls_key[ls_pred[t]]
             THEN IF ls_node[t] = ls_pred[t]
                    THEN /\ pc' = [pc EXCEPT ![t] =       \* return pred->next_ == curr
                                     IF ls_next[ls_pred[t]] # ls_curr[t] THEN "op_l184"
                                     ELSE IF ls_op[t] = "add" THEN "op_l69"
                                     ELSE IF ls_op[t] = "remove" THEN "op_l102"
                                     ELSE "op_l141"]
                         /\ UNCHANGED ls_node
                    ELSE /\ ls_node' = [ls_node EXCEPT ![t] = ls_next[ls_node[t]]]
                         /\ UNCHANGED pc
             ELSE /\ pc' = [pc EXCEPT ![t] = "op_l184"]      \* return false
                  /\ UNCHANGED ls_node
        /\ UNCHANGED <<ls_pred, ls_curr, ls_lock>>
     \/ /\ pc[t] = "op_l184"       \* pred->unlock()
        /\ ls_lock' = [ls_lock EXCEPT ![ls_pred[t]] = Null]
        /\ pc' = [pc EXCEPT ![t] = "op_l185"]
        /\ UNCHANGED <<ls_pred, ls_curr, ls_node>>
     \/ /\ pc[t] = "op_l185"       \* curr->unlock(); search again
        /\ ls_lock' = [ls_lock EXCEPT ![ls_curr[t]] = Null]
        /\ pc' = [pc EXCEPT ![t] = "op_l162"]
        /\ UNCHANGED <<ls_pred, ls_curr, ls_node>>
  /\ UNCHANGED <<lockKind, numIter, iter, counter, prev, fifo_queue, ls_key, ls_next,
                 ls_marked, ls_garbage, ls_next_deleted, ls_nalloc, ls_op, ls_k,
                 ls_succ, ls_ret, ls_net, others_List>>
  /\ LS_Observe

\* search has returned curr->key_ == key, with pred and curr locked.
OptimisticList_add(t) ==
  /\ lockKind = "OptimisticList"
  /\ \/ /\ LS_call(t, "add", "op_l162")
        /\ UNCHANGED <<ls_key, ls_next, ls_lock, ls_nalloc, ls_curr>>
     \/ /\ pc[t] = "op_l69"        \* curr = pred->next_; if (!key_exists) insert the new node
        /\ ls_curr' = [ls_curr EXCEPT ![t] = ls_next[ls_pred[t]]]
        /\ IF ls_key[ls_curr[t]] # ls_k[t]
             THEN /\ ls_nalloc' = ls_nalloc + 1
                  /\ ls_key' = [ls_key EXCEPT ![ls_nalloc + 1] = ls_k[t]]
                  /\ ls_next' = [ls_next EXCEPT ![ls_nalloc + 1] = ls_next[ls_pred[t]],
                                                ![ls_pred[t]] = ls_nalloc + 1]
             ELSE UNCHANGED <<ls_key, ls_next, ls_nalloc>>
        /\ pc' = [pc EXCEPT ![t] = "op_l92"]
        /\ UNCHANGED <<iter, ls_op, ls_k, ls_ret, ls_net, ls_lock>>
     \/ /\ pc[t] = "op_l92"        \* curr->unlock()
        /\ ls_lock' = [ls_lock EXCEPT ![ls_curr[t]] = Null]
        /\ pc' = [pc EXCEPT ![t] = "op_l93"]
        /\ UNCHANGED <<iter, ls_op, ls_k, ls_ret, ls_net, ls_key, ls_next, ls_nalloc,
                       ls_curr>>
     \/ /\ pc[t] = "op_l93"        \* pred->unlock(); return !key_exists
        /\ ls_lock' = [ls_lock EXCEPT ![ls_pred[t]] = Null]
        /\ LS_return(t, ls_key[ls_curr[t]] # ls_k[t])
        /\ UNCHANGED <<ls_key, ls_next, ls_nalloc, ls_curr>>
  /\ UNCHANGED <<lockKind, numIter, counter, prev, fifo_queue, ls_marked, ls_garbage,
                 ls_next_deleted, ls_pred, ls_succ, ls_node, others_List>>
  /\ LS_Observe

OptimisticList_remove(t) ==
  /\ lockKind = "OptimisticList"
  /\ \/ /\ LS_call(t, "remove", "op_l162")
        /\ UNCHANGED <<ls_next, ls_lock, ls_garbage, ls_curr>>
     \/ /\ pc[t] = "op_l102"       \* curr = pred->next_; if (key_exists) pred->next_ = curr->next_
        /\ ls_curr' = [ls_curr EXCEPT ![t] = ls_next[ls_pred[t]]]
        /\ IF ls_key[ls_curr[t]] = ls_k[t]
             THEN /\ ls_next' = [ls_next EXCEPT ![ls_pred[t]] = ls_next[ls_next[ls_pred[t]]]]
                  /\ pc' = [pc EXCEPT ![t] = "op_l120"]
             ELSE /\ pc' = [pc EXCEPT ![t] = "op_l130"]
                  /\ UNCHANGED ls_next
        /\ UNCHANGED <<iter, ls_op, ls_k, ls_ret, ls_net, ls_lock, ls_garbage>>
     \/ /\ pc[t] = "op_l120"       \* curr->next_ = garbage_list_.load()
        /\ ls_next' = [ls_next EXCEPT ![ls_curr[t]] = ls_garbage]
        /\ pc' = [pc EXCEPT ![t] = "op_l121"]
        /\ UNCHANGED <<iter, ls_op, ls_k, ls_ret, ls_net, ls_lock, ls_garbage, ls_curr>>
     \/ /\ pc[t] = "op_l121"       \* garbage_list_.compare_exchange_weak(curr->next_, curr)
        /\ IF ls_garbage = ls_next[ls_curr[t]]
             THEN /\ ls_garbage' = ls_curr[t]
                  /\ pc' = [pc EXCEPT ![t] = "op_l130"]
                  /\ UNCHANGED ls_next
             ELSE /\ ls_next' = [ls_next EXCEPT ![ls_curr[t]] = ls_garbage]
                  /\ UNCHANGED <<pc, ls_garbage>>
        /\ UNCHANGED <<iter, ls_op, ls_k, ls_ret, ls_net, ls_lock, ls_curr>>
     \/ /\ pc[t] = "op_l130"       \* curr->unlock()
        /\ ls_lock' = [ls_lock EXCEPT ![ls_curr[t]] = Null]
        /\ pc' = [pc EXCEPT ![t] = "op_l131"]
        /\ UNCHANGED <<iter, ls_op, ls_k, ls_ret, ls_net, ls_next, ls_garbage, ls_curr>>
     \/ /\ pc[t] = "op_l131"       \* pred->unlock(); return key_exists
        /\ ls_lock' = [ls_lock EXCEPT ![ls_pred[t]] = Null]
        /\ LS_return(t, ls_key[ls_curr[t]] = ls_k[t])
        /\ UNCHANGED <<ls_next, ls_garbage, ls_curr>>
  /\ UNCHANGED <<lockKind, numIter, counter, prev, fifo_queue, ls_key, ls_marked,
                 ls_next_deleted, ls_nalloc, ls_pred, ls_succ, ls_node, others_List>>
  /\ LS_Observe

OptimisticList_contains(t) ==
  /\ lockKind = "OptimisticList"
  /\ \/ /\ LS_call(t, "contains", "op_l162")
        /\ UNCHANGED ls_lock
     \/ /\ pc[t] = "op_l141"       \* pred->next_->unlock()
        /\ ls_lock' = [ls_lock EXCEPT ![ls_next[ls_pred[t]]] = Null]
        /\ pc' = [pc EXCEPT ![t] = "op_l142"]
        /\ UNCHANGED <<iter, ls_op, ls_k, ls_ret, ls_net>>
     \/ /\ pc[t] = "op_l142"       \* pred->unlock(); return key_exists
        /\ ls_lock' = [ls_lock EXCEPT ![ls_pred[t]] = Null]
        /\ LS_return(t, ls_key[ls_curr[t]] = ls_k[t])
  /\ UNCHANGED <<lockKind, numIter, counter, prev, fifo_queue, ls_key, ls_next,
                 ls_marked, ls_garbage, ls_next_deleted, ls_nalloc, ls_pred, ls_curr,
                 ls_succ, ls_node, others_List>>
  /\ LS_Observe

(***************************************************************************)
(* FineList (fine_list.h): hand-over-hand locking.  A thread that waits    *)
(* for the mutex_ of a node holds the mutex_ of the node before it, so the *)
(* pointer it follows cannot change while it waits: reading next_ and      *)
(* locking that node is one step.  remove deletes the node it unlinked;    *)
(* ls_marked[n] says that node n has been deleted.  A label fn_lN is       *)
(* line N.                                                                 *)
(***************************************************************************)

\* ls_lock after Node::unlock of node n.
FN_unlock_bug(n) == ls_lock
FN_unlock(n) == [ls_lock EXCEPT ![n] = Null]

\* Where search goes once curr is locked: on along the list, or back to the caller.
FN_after_lock(t, c) ==
  IF ls_key[c] < ls_k[t] THEN "fn_l194"
  ELSE IF ls_op[t] = "add" THEN "fn_l101"
  ELSE IF ls_op[t] = "remove" THEN "fn_l132"
  ELSE "fn_l164"

FineList_search(t) ==
  /\ lockKind = "FineList"
  /\ \/ /\ pc[t] = "fn_l188"       \* head_->lock(); pred = head_
        /\ ls_lock[LS_Head] = Null
        /\ ls_lock' = [ls_lock EXCEPT ![LS_Head] = t]
        /\ ls_pred' = [ls_pred EXCEPT ![t] = LS_Head]
        /\ pc' = [pc EXCEPT ![t] = "fn_l190"]
        /\ UNCHANGED ls_curr
     \/ /\ pc[t] = "fn_l190"       \* curr = pred->next_; curr->lock(); while (curr->key_ < key)
        /\ ls_lock[ls_next[ls_pred[t]]] = Null
        /\ ls_lock' = [ls_lock EXCEPT ![ls_next[ls_pred[t]]] = t]
        /\ ls_curr' = [ls_curr EXCEPT ![t] = ls_next[ls_pred[t]]]
        /\ pc' = [pc EXCEPT ![t] = FN_after_lock(t, ls_next[ls_pred[t]])]
        /\ UNCHANGED ls_pred
     \/ /\ pc[t] = "fn_l194"       \* pred->unlock(); pred = curr
        /\ ls_lock' = FN_unlock(ls_pred[t])
        /\ ls_pred' = [ls_pred EXCEPT ![t] = ls_curr[t]]
        /\ pc' = [pc EXCEPT ![t] = "fn_l196"]
        /\ UNCHANGED ls_curr
     \/ /\ pc[t] = "fn_l196"       \* curr = curr->next_; curr->lock(); while (curr->key_ < key)
        /\ ls_lock[ls_next[ls_curr[t]]] = Null
        /\ ls_lock' = [ls_lock EXCEPT ![ls_next[ls_curr[t]]] = t]
        /\ ls_curr' = [ls_curr EXCEPT ![t] = ls_next[ls_curr[t]]]
        /\ pc' = [pc EXCEPT ![t] = FN_after_lock(t, ls_next[ls_curr[t]])]
        /\ UNCHANGED ls_pred
  /\ UNCHANGED <<lockKind, numIter, iter, counter, prev, fifo_queue, ls_key, ls_next,
                 ls_marked, ls_garbage, ls_next_deleted, ls_nalloc, ls_op, ls_k,
                 ls_succ, ls_node, ls_ret, ls_net, others_List>>
  /\ LS_Observe

\* What search returned: curr != tail_ && curr->key_ == key.
FN_key_exists(t) == ls_curr[t] # LS_Tail /\ ls_key[ls_curr[t]] = ls_k[t]

FineList_add(t) ==
  /\ lockKind = "FineList"
  /\ \/ /\ LS_call(t, "add", "fn_l188")
        /\ UNCHANGED <<ls_key, ls_next, ls_lock, ls_nalloc>>
     \/ /\ pc[t] = "fn_l101"       \* curr = pred->next_; if (!key_exists) insert the new node
        /\ IF ~FN_key_exists(t)
             THEN /\ ls_nalloc' = ls_nalloc + 1
                  /\ ls_key' = [ls_key EXCEPT ![ls_nalloc + 1] = ls_k[t]]
                  /\ ls_next' = [ls_next EXCEPT ![ls_nalloc + 1] = ls_next[ls_pred[t]],
                                                ![ls_pred[t]] = ls_nalloc + 1]
             ELSE UNCHANGED <<ls_key, ls_next, ls_nalloc>>
        /\ pc' = [pc EXCEPT ![t] = "fn_l110"]
        /\ UNCHANGED <<iter, ls_op, ls_k, ls_ret, ls_net, ls_lock>>
     \/ /\ pc[t] = "fn_l110"       \* curr->unlock()
        /\ ls_lock' = FN_unlock(ls_curr[t])
        /\ pc' = [pc EXCEPT ![t] = "fn_l111"]
        /\ UNCHANGED <<iter, ls_op, ls_k, ls_ret, ls_net, ls_key, ls_next, ls_nalloc>>
     \/ /\ pc[t] = "fn_l111"       \* pred->unlock(); return !key_exists
        /\ ls_lock' = FN_unlock(ls_pred[t])
        /\ LS_return(t, ~FN_key_exists(t))
        /\ UNCHANGED <<ls_key, ls_next, ls_nalloc>>
  /\ UNCHANGED <<lockKind, numIter, counter, prev, fifo_queue, ls_marked, ls_garbage,
                 ls_next_deleted, ls_pred, ls_curr, ls_succ, ls_node, others_List>>
  /\ LS_Observe

FineList_remove(t) ==
  /\ lockKind = "FineList"
  /\ \/ /\ LS_call(t, "remove", "fn_l188")
        /\ UNCHANGED <<ls_next, ls_marked, ls_lock>>
     \/ /\ pc[t] = "fn_l132"       \* curr = pred->next_; if (key_exists) pred->next_ = curr->next_
        /\ IF FN_key_exists(t)
             THEN /\ ls_next' = [ls_next EXCEPT ![ls_pred[t]] = ls_next[ls_curr[t]]]
                  /\ pc' = [pc EXCEPT ![t] = "fn_l136"]
             ELSE /\ pc' = [pc EXCEPT ![t] = "fn_l139"]
                  /\ UNCHANGED ls_next
        /\ UNCHANGED <<iter, ls_op, ls_k, ls_ret, ls_net, ls_marked, ls_lock>>
     \/ /\ pc[t] = "fn_l136"       \* curr->unlock(); delete curr
        /\ ls_lock' = FN_unlock(ls_curr[t])
        /\ ls_marked' = [ls_marked EXCEPT ![ls_curr[t]] = TRUE]
        /\ pc' = [pc EXCEPT ![t] = "fn_l143"]
        /\ UNCHANGED <<iter, ls_op, ls_k, ls_ret, ls_net, ls_next>>
     \/ /\ pc[t] = "fn_l139"       \* else curr->unlock()
        /\ ls_lock' = FN_unlock(ls_curr[t])
        /\ pc' = [pc EXCEPT ![t] = "fn_l143"]
        /\ UNCHANGED <<iter, ls_op, ls_k, ls_ret, ls_net, ls_next, ls_marked>>
     \/ /\ pc[t] = "fn_l143"       \* pred->unlock(); return key_exists
        /\ ls_lock' = FN_unlock(ls_pred[t])
        /\ LS_return(t, FN_key_exists(t))
        /\ UNCHANGED <<ls_next, ls_marked>>
  /\ UNCHANGED <<lockKind, numIter, counter, prev, fifo_queue, ls_key, ls_garbage,
                 ls_next_deleted, ls_nalloc, ls_pred, ls_curr, ls_succ, ls_node,
                 others_List>>
  /\ LS_Observe

FineList_contains(t) ==
  /\ lockKind = "FineList"
  /\ \/ /\ LS_call(t, "contains", "fn_l188")
        /\ UNCHANGED ls_lock
     \/ /\ pc[t] = "fn_l164"       \* pred->next_->unlock()
        /\ ls_lock' = FN_unlock(ls_next[ls_pred[t]])
        /\ pc' = [pc EXCEPT ![t] = "fn_l165"]
        /\ UNCHANGED <<iter, ls_op, ls_k, ls_ret, ls_net>>
     \/ /\ pc[t] = "fn_l165"       \* pred->unlock(); return key_exists
        /\ ls_lock' = FN_unlock(ls_pred[t])
        /\ LS_return(t, FN_key_exists(t))
  /\ UNCHANGED <<lockKind, numIter, counter, prev, fifo_queue, ls_key, ls_next,
                 ls_marked, ls_garbage, ls_next_deleted, ls_nalloc, ls_pred, ls_curr,
                 ls_succ, ls_node, others_List>>
  /\ LS_Observe

(***************************************************************************)
(* The list sets used by one thread (the BoundaryCheck tests).  With one   *)
(* thread no lock is contended, no validation fails and no marked node     *)
(* stays linked, so a list is the sequence of the keys of its nodes, head_ *)
(* first.  size_t has BLKeyBits bits.  The item of a call is given by its  *)
(* hash.  "CoarseList" is the class with tail_, "CoarseList.old" the copy  *)
(* of it without.                                                          *)
(***************************************************************************)

BL_Max == 2^BLKeyBits - 1       \* std::numeric_limits<size_t>::max()
BL_Kinds == {"CoarseList", "CoarseList.old", "FineList", "OptimisticList",
             "LazyList", "LockFreeList"}

\* The constructors: head_ with the smallest key, then the tail with the largest.
BLInit ==
  /\ bl_kind \in IF lockKind = "Boundary" THEN BL_Kinds ELSE {"CoarseList"}
  /\ bl_list = <<0, BL_Max>>
  /\ bl_op = "none"
  /\ bl_hash = 0
  /\ bl_ret = FALSE
  /\ bl_empty = FALSE

\* get_hash_value of each class, for an item with hash h.
BL_get_hash_value(kind, h) ==
  IF kind = "LazyList" THEN (h + 1) % 2^BLKeyBits
  ELSE IF kind = "OptimisticList" THEN (h % (BL_Max - 1)) + 1
  ELSE h

\* while (curr->key_ < key) curr = curr->next_, begun at node number from:
\* the number of the node it stops at, 0 if it runs off the last node.
BL_walk(list, from, key) ==
  IF \E i \in from..Len(list) : list[i] >= key
    THEN CHOOSE i \in from..Len(list) :
           /\ list[i] >= key
           /\ \A j \in from..(i - 1) : list[j] < key
    ELSE 0

\* What the search reports of the node i it stopped at: with the test
\* curr != tail_ in the classes that have it.
BL_key_exists(kind, list, i, key) ==
  /\ kind \in {"CoarseList", "FineList", "LockFreeList"} => i # Len(list)
  /\ list[i] = key

\* One call of a method on the list: the harness records what it was given.
BL_call(op, h, from) ==
  /\ lockKind = "Boundary"
  /\ bl_op # "crash"
  /\ bl_op' = IF BL_walk(bl_list, from, BL_get_hash_value(bl_kind, h)) = 0
                THEN "crash" ELSE op
  /\ bl_hash' = h
  /\ bl_empty' = (bl_list = <<0, BL_Max>>)
  /\ UNCHANGED <<bl_kind, harnessVars, others_DS, qVars, others_Q>>

\* contains(item): LazyList walks from head_, the others from head_->next_.
ListSet_contains(h) ==
  LET key == BL_get_hash_value(bl_kind, h)
      i == BL_walk(bl_list, IF bl_kind = "LazyList" THEN 1 ELSE 2, key)
  IN  /\ BL_call("contains", h, IF bl_kind = "LazyList" THEN 1 ELSE 2)
      /\ bl_ret' = (i # 0 /\ BL_key_exists(bl_kind, bl_list, i, key))
      /\ UNCHANGED bl_list

\* add(item): the new node goes in front of the node the search stopped at.
ListSet_add(h) ==
  LET key == BL_get_hash_value(bl_kind, h)
      i == BL_walk(bl_list, 2, key)
      exists == i # 0 /\ BL_key_exists(bl_kind, bl_list, i, key)
  IN  /\ BL_call("add", h, 2)
      /\ exists \/ Len(bl_list) < BLMaxItems + 2
      /\ bl_ret' = (i # 0 /\ ~exists)
      /\ bl_list' = IF i # 0 /\ ~exists
                      THEN SubSeq(bl_list, 1, i - 1) \o <<key>>
                             \o SubSeq(bl_list, i, Len(bl_list))
                      ELSE bl_list

\* remove(item): the node the search stopped at is unlinked.
ListSet_remove(h) ==
  LET key == BL_get_hash_value(bl_kind, h)
      i == BL_walk(bl_list, 2, key)
      exists == i # 0 /\ BL_key_exists(bl_kind, bl_list, i, key)
  IN  /\ BL_call("remove", h, 2)
      /\ bl_ret' = exists
      /\ bl_list' = IF exists
                      THEN SubSeq(bl_list, 1, i - 1) \o SubSeq(bl_list, i + 1, Len(bl_list))
                      ELSE bl_list

(***************************************************************************)
(* The queues.  A node is a number, node 1 the sentinel the constructor    *)
(* makes; the values enqueued are 1, 2, ... in the order of the calls, so  *)
(* that every value is enqueued once.  q_loc[t] holds the locals of the    *)
(* method thread t is in, under their names in the source.  The queue      *)
(* starts with QInitial items, enqueued before the threads start.          *)
(***************************************************************************)

QThreads == 1..QNumThreads
Q_MaxAlloc == 1 + QInitial + QNumThreads * QOps
Q_Nodes == 1..Q_MaxAlloc
Q_NoLocals == [node |-> Null, first |-> Null, last |-> Null, next |-> Null,
               value |-> 0, first_stamp |-> 0, last_stamp |-> 0, next_stamp |-> 0,
               head |-> Null, stamp |-> 0, must_wake |-> FALSE, cv |-> "none",
               ret |-> "none"]

QInit ==
  /\ q_value = [n \in Q_Nodes |-> IF n \in 2..(QInitial + 1) THEN n - 1 ELSE 0]
  /\ q_next = [n \in Q_Nodes |-> IF n <= QInitial THEN n + 1 ELSE Null]
  /\ q_head = 1
  /\ q_tail = QInitial + 1
  /\ q_nalloc = QInitial + 1
  /\ q_nval = QInitial
  /\ q_garbage = {}
  /\ q_nstamp = [n \in Q_Nodes |-> IF n <= QInitial THEN 1 ELSE 0]
  /\ q_stamps = [head |-> 0, tail |-> QInitial, pool |-> 0]
  /\ q_pool = Null
  /\ q_rets = <<>>
  /\ q_mutex = [enq |-> FALSE, deq |-> FALSE, mutex |-> FALSE]
  /\ q_size = QInitial
  /\ q_waiters = [not_full |-> <<>>, not_empty |-> <<>>, cv |-> <<>>]
  /\ q_signal = [t \in DOMAIN pc |-> FALSE]
  /\ q_to_notify = [t \in DOMAIN pc |-> <<>>]
  /\ q_op = [t \in DOMAIN pc |-> "none"]
  /\ q_loc = [t \in DOMAIN pc |-> Q_NoLocals]
  /\ q_ret = [t \in DOMAIN pc |-> 0]
  /\ q_enq = [i \in 1..QInitial |-> i]
  /\ q_deq = <<>>
  /\ q_taken = [t \in DOMAIN pc |-> 0]
  /\ q_emp = [t \in DOMAIN pc |-> FALSE]
  /\ sq_item = 0
  /\ sq_enqueuing = FALSE
  /\ sq_published = <<>>
  /\ sq_consumed = <<>>

\* What a dequeue returns instead of a value when it throws EmptyException.
Q_Empty == 0 - 1

\* The values of the nodes after node n, in the order of the next_ pointers.
RECURSIVE Q_Values(_, _)
Q_Values(n, fuel) ==
  IF q_next[n] = Null \/ fuel = 0 THEN <<>>
  ELSE <<q_value[q_next[n]]>> \o Q_Values(q_next[n], fuel - 1)

\* The queue the histories stand for: what took effect less what was taken.
Q_Abs == SubSeq(q_enq, Len(q_deq) + 1, Len(q_enq))

Q_Quiet(t) == pc[t] \in {"idle", "done"}

\* The histories of the calls, brought up to date by every step.
Q_Observe ==
  q_emp' = [t \in DOMAIN pc |->
              IF Q_Quiet(t) /\ pc'[t] \in {"idle", "done"} THEN q_emp[t]
              ELSE (~Q_Quiet(t) /\ q_emp[t]) \/ Len(q_enq') = Len(q_deq')]

\* Thread t calls enqueue with the next value: new Node(value), then label l.
Q_call_enqueue(t, l) ==
  /\ pc[t] = "idle"
  /\ q_op' = [q_op EXCEPT ![t] = "enqueue"]
  /\ q_nval' = q_nval + 1
  /\ q_nalloc' = q_nalloc + 1
  /\ q_value' = [q_value EXCEPT ![q_nalloc + 1] = q_nval + 1]
  /\ q_loc' = [q_loc EXCEPT ![t] = [Q_NoLocals EXCEPT !.node = q_nalloc + 1,
                                                       !.value = q_nval + 1]]
  /\ pc' = [pc EXCEPT ![t] = l]
  /\ UNCHANGED <<iter, q_ret, q_rets>>

\* Thread t calls dequeue and goes to label l.
Q_call_dequeue(t, l) ==
  /\ pc[t] = "idle"
  /\ q_op' = [q_op EXCEPT ![t] = "dequeue"]
  /\ q_loc' = [q_loc EXCEPT ![t] = Q_NoLocals]
  /\ pc' = [pc EXCEPT ![t] = l]
  /\ UNCHANGED <<iter, q_ret, q_rets, q_nval, q_nalloc, q_value>>

\* The method of thread t returns r (enqueue returns nothing: r is its value).
Q_return(t, r) ==
  /\ q_ret' = [q_ret EXCEPT ![t] = r]
  /\ q_rets' = IF q_op[t] = "dequeue" /\ r # Q_Empty THEN Append(q_rets, r) ELSE q_rets
  /\ EndIteration(t)
  /\ UNCHANGED <<q_op, q_loc>>

\* Thread t goes to label l with its locals set to loc.
Q_goto(t, l, loc) ==
  /\ pc' = [pc EXCEPT ![t] = l]
  /\ q_loc' = [q_loc EXCEPT ![t] = loc]
  /\ UNCHANGED <<iter, q_op, q_ret, q_rets>>

(***************************************************************************)
(* LockFreeQueue (lock_free_queue.h).  A label lfq_lN is line N.           *)
(***************************************************************************)

\* compare_exchange_strong(exp, ...) on an atomic pointer that holds cur succeeds.
LFQ_cas_ok_bug(cur, exp) == TRUE
LFQ_cas_ok(cur, exp) == cur = exp

LockFreeQueue_enqueue(t) ==
  /\ lockKind = "LockFreeQueue"
  /\ \/ /\ Q_call_enqueue(t, "lfq_l53")
        /\ UNCHANGED <<q_next, q_tail, q_enq>>
     \/ /\ pc[t] = "lfq_l53"        \* last = tail_.load()
        /\ Q_goto(t, "lfq_l54", [q_loc[t] EXCEPT !.last = q_tail])
        /\ UNCHANGED <<q_next, q_tail, q_enq, q_value, q_nalloc, q_nval>>
     \/ /\ pc[t] = "lfq_l54"        \* next = last->next_.load()
        /\ Q_goto(t, "lfq_l59", [q_loc[t] EXCEPT !.next = q_next[q_loc[t].last]])
        /\ UNCHANGED <<q_next, q_tail, q_enq, q_value, q_nalloc, q_nval>>
     \/ /\ pc[t] = "lfq_l59"        \* if (last == tail_.load()) if (next == nullptr)
        /\ Q_goto(t, IF q_loc[t].last # q_tail THEN "lfq_l53"
                     ELSE IF q_loc[t].next = Null THEN "lfq_l63" ELSE "lfq_l74",
                  q_loc[t])
        /\ UNCHANGED <<q_next, q_tail, q_enq, q_value, q_nalloc, q_nval>>
     \/ /\ pc[t] = "lfq_l63"        \* last->next_.compare_exchange_strong(next, node)
        /\ IF LFQ_cas_ok(q_next[q_loc[t].last], q_loc[t].next)
             THEN /\ q_next' = [q_next EXCEPT ![q_loc[t].last] = q_loc[t].node]
                  /\ q_enq' = Append(q_enq, q_loc[t].value)
                  /\ Q_goto(t, "lfq_l67", q_loc[t])
             ELSE /\ Q_goto(t, "lfq_l53", q_loc[t])
                  /\ UNCHANGED <<q_next, q_enq>>
        /\ UNCHANGED <<q_tail, q_value, q_nalloc, q_nval>>
     \/ /\ pc[t] = "lfq_l67"        \* tail_.compare_exchange_strong(last, node); return
        /\ q_tail' = IF LFQ_cas_ok(q_tail, q_loc[t].last) THEN q_loc[t].node ELSE q_tail
        /\ Q_return(t, q_loc[t].value)
        /\ UNCHANGED <<q_next, q_enq, q_value, q_nalloc, q_nval>>
     \/ /\ pc[t] = "lfq_l74"        \* tail_.compare_exchange_strong(last, next)
        /\ q_tail' = IF LFQ_cas_ok(q_tail, q_loc[t].last) THEN q_loc[t].next ELSE q_tail
        /\ Q_goto(t, "lfq_l53", q_loc[t])
        /\ UNCHANGED <<q_next, q_enq, q_value, q_nalloc, q_nval>>
  /\ UNCHANGED <<lockKind, numIter, counter, prev, fifo_queue, q_head, q_garbage,
                 q_deq, q_taken, qRecycle, qLock, others_DS, blVars, others_Q>>
  /\ Q_Observe

LockFreeQueue_dequeue(t) ==
  /\ lockKind = "LockFreeQueue"
  /\ \/ /\ Q_call_dequeue(t, "lfq_l84")
        /\ UNCHANGED <<q_head, q_tail, q_garbage, q_deq, q_taken>>
     \/ /\ pc[t] = "lfq_l84"        \* first = head_.load()
        /\ Q_goto(t, "lfq_l85", [q_loc[t] EXCEPT !.first = q_head])
        /\ UNCHANGED <<q_head, q_tail, q_garbage, q_deq, q_taken, q_value, q_nalloc, q_nval>>
     \/ /\ pc[t] = "lfq_l85"        \* last = tail_.load()
        /\ Q_goto(t, "lfq_l86", [q_loc[t] EXCEPT !.last = q_tail])
        /\ UNCHANGED <<q_head, q_tail, q_garbage, q_deq, q_taken, q_value, q_nalloc, q_nval>>
     \/ /\ pc[t] = "lfq_l86"        \* next = first->next_.load()
        /\ Q_goto(t, "lfq_l91", [q_loc[t] EXCEPT !.next = q_next[q_loc[t].first]])
        /\ UNCHANGED <<q_head, q_tail, q_garbage, q_deq, q_taken, q_value, q_nalloc, q_nval>>
     \/ /\ pc[t] = "lfq_l91"        \* if (first == head_.load()) ... throw EmptyException
        /\ IF q_loc[t].first = q_head /\ q_loc[t].first = q_loc[t].last
                /\ q_loc[t].next = Null
             THEN Q_return(t, Q_Empty)
             ELSE Q_goto(t, IF q_loc[t].first # q_head THEN "lfq_l84"
                            ELSE IF q_loc[t].first = q_loc[t].last THEN "lfq_l98"
                            ELSE "lfq_l102",
                         q_loc[t])
        /\ UNCHANGED <<q_head, q_tail, q_garbage, q_deq, q_taken, q_value, q_nalloc, q_nval>>
     \/ /\ pc[t] = "lfq_l98"        \* tail_.compare_exchange_strong(last, next)
        /\ q_tail' = IF LFQ_cas_ok(q_tail, q_loc[t].last) THEN q_loc[t].next ELSE q_tail
        /\ Q_goto(t, "lfq_l84", q_loc[t])
        /\ UNCHANGED <<q_head, q_garbage, q_deq, q_taken, q_value, q_nalloc, q_nval>>
     \/ /\ pc[t] = "lfq_l102"       \* head_.compare_exchange_strong(first, next)
        /\ IF LFQ_cas_ok(q_head, q_loc[t].first)
             THEN /\ q_head' = q_loc[t].next
                  /\ q_deq' = Append(q_deq, q_value[q_loc[t].next])
                  /\ q_taken' = [q_taken EXCEPT ![t] = q_value[q_loc[t].next]]
                  /\ Q_goto(t, "lfq_l105", q_loc[t])
             ELSE /\ Q_goto(t, "lfq_l84", q_loc[t])
                  /\ UNCHANGED <<q_head, q_deq, q_taken>>
        /\ UNCHANGED <<q_tail, q_garbage, q_value, q_nalloc, q_nval>>
     \/ /\ pc[t] = "lfq_l105"       \* value = next->value_.value(); add_to_garbage(first); return
        /\ q_garbage' = q_garbage \cup {q_loc[t].first}
        /\ Q_return(t, q_value[q_loc[t].next])
        /\ UNCHANGED <<q_head, q_tail, q_deq, q_taken, q_value, q_nalloc, q_nval>>
  /\ UNCHANGED <<lockKind, numIter, counter, prev, fifo_queue, q_next, q_enq,
                 qRecycle, qLock, others_DS, blVars, others_Q>>
  /\ Q_Observe

(***************************************************************************)
(* LockFreeQueueRecycle (lock_free_queue_recycle.h) with its NodePool.     *)
(* A label lqr_lN is line N; allocate and free of the pool run inside      *)
(* enqueue and dequeue.  The stamps are counted without a bound: a         *)
(* uint64_t does not wrap within the calls of a behaviour.                 *)
(***************************************************************************)

\* AtomicStampedPtr::compare_and_swap succeeds: the pair held is the pair expected.
ASP_cas_ok_bug(ptr, stamp, expected_ptr, expected_stamp) == ptr = expected_ptr
ASP_cas_ok(ptr, stamp, expected_ptr, expected_stamp) ==
  ptr = expected_ptr /\ stamp = expected_stamp

LockFreeQueueRecycle_enqueue(t) ==
  /\ lockKind = "LockFreeQueueRecycle"
  /\ \/ /\ pc[t] = "idle"           \* enqueue(value): node = node_pool_.allocate(value)
        /\ q_op' = [q_op EXCEPT ![t] = "enqueue"]
        /\ q_nval' = q_nval + 1
        /\ q_loc' = [q_loc EXCEPT ![t] = [Q_NoLocals EXCEPT !.value = q_nval + 1]]
        /\ pc' = [pc EXCEPT ![t] = "lqr_l40"]
        /\ UNCHANGED <<iter, q_ret, q_rets>>
        /\ UNCHANGED <<q_value, q_next, q_head, q_tail, q_nalloc, q_nstamp, q_stamps,
                      q_pool, q_enq, q_deq, q_taken>>
     \/ /\ pc[t] = "lqr_l40"        \* [head, stamp] = unused_nodes_.get(); if (head == nullptr) return new Node
        /\ IF q_pool = Null
             THEN /\ q_nalloc' = q_nalloc + 1
                  /\ q_value' = [q_value EXCEPT ![q_nalloc + 1] = q_loc[t].value]
                  /\ Q_goto(t, "lqr_l95", [q_loc[t] EXCEPT !.node = q_nalloc + 1])
             ELSE /\ Q_goto(t, "lqr_l45", [q_loc[t] EXCEPT !.head = q_pool,
                                                            !.stamp = q_stamps.pool])
                  /\ UNCHANGED <<q_nalloc, q_value>>
        /\ UNCHANGED <<q_next, q_head, q_tail, q_nval, q_nstamp, q_stamps, q_pool, q_enq,
                      q_deq, q_taken>>
     \/ /\ pc[t] = "lqr_l45"        \* next = head->next_.get_ptr()
        /\ Q_goto(t, "lqr_l48", [q_loc[t] EXCEPT !.next = q_next[q_loc[t].head]])
        /\ UNCHANGED <<q_value, q_next, q_head, q_tail, q_nalloc, q_nval, q_nstamp,
                      q_stamps, q_pool, q_enq, q_deq, q_taken>>
     \/ /\ pc[t] = "lqr_l48"        \* unused_nodes_.compare_and_swap(head, next, stamp, stamp + 1)
        /\ IF ASP_cas_ok(q_pool, q_stamps.pool, q_loc[t].head, q_loc[t].stamp)
             THEN /\ q_pool' = q_loc[t].next
                  /\ q_stamps' = [q_stamps EXCEPT !.pool = q_loc[t].stamp + 1]
                  /\ Q_goto(t, "lqr_l50", q_loc[t])
             ELSE /\ Q_goto(t, "lqr_l40", q_loc[t])
                  /\ UNCHANGED <<q_pool, q_stamps>>
        /\ UNCHANGED <<q_value, q_next, q_head, q_tail, q_nalloc, q_nval, q_nstamp, q_enq,
                      q_deq, q_taken>>
     \/ /\ pc[t] = "lqr_l50"        \* head->value_ = std::move(value)
        /\ q_value' = [q_value EXCEPT ![q_loc[t].head] = q_loc[t].value]
        /\ Q_goto(t, "lqr_l53", q_loc[t])
        /\ UNCHANGED <<q_next, q_head, q_tail, q_nalloc, q_nval, q_nstamp, q_stamps,
                      q_pool, q_enq, q_deq, q_taken>>
     \/ /\ pc[t] = "lqr_l53"        \* head->next_.set(nullptr, 0); return head
        /\ q_next' = [q_next EXCEPT ![q_loc[t].head] = Null]
        /\ q_nstamp' = [q_nstamp EXCEPT ![q_loc[t].head] = 0]
        /\ Q_goto(t, "lqr_l95", [q_loc[t] EXCEPT !.node = q_loc[t].head])
        /\ UNCHANGED <<q_value, q_head, q_tail, q_nalloc, q_nval, q_stamps, q_pool, q_enq,
                      q_deq, q_taken>>
     \/ /\ pc[t] = "lqr_l95"        \* [last, last_stamp] = tail_.get()
        /\ Q_goto(t, "lqr_l97", [q_loc[t] EXCEPT !.last = q_tail, !.last_stamp = q_stamps.tail])
        /\ UNCHANGED <<q_value, q_next, q_head, q_tail, q_nalloc, q_nval, q_nstamp,
                      q_stamps, q_pool, q_enq, q_deq, q_taken>>
     \/ /\ pc[t] = "lqr_l97"        \* [next, next_stamp] = last->next_.get()
        /\ Q_goto(t, "lqr_l99", [q_loc[t] EXCEPT !.next = q_next[q_loc[t].last],
                                                 !.next_stamp = q_nstamp[q_loc[t].last]])
        /\ UNCHANGED <<q_value, q_next, q_head, q_tail, q_nalloc, q_nval, q_nstamp,
                      q_stamps, q_pool, q_enq, q_deq, q_taken>>
     \/ /\ pc[t] = "lqr_l99"        \* if (last_stamp == tail_.get_stamp()) if (next == nullptr)
        /\ Q_goto(t, IF q_loc[t].last_stamp # q_stamps.tail THEN "lqr_l95"
                     ELSE IF q_loc[t].next = Null THEN "lqr_l102" ELSE "lqr_l114",
                  q_loc[t])
        /\ UNCHANGED <<q_value, q_next, q_head, q_tail, q_nalloc, q_nval, q_nstamp,
                      q_stamps, q_pool, q_enq, q_deq, q_taken>>
     \/ /\ pc[t] = "lqr_l102"       \* last->next_.compare_and_swap(next, node, next_stamp, next_stamp + 1)
        /\ IF ASP_cas_ok(q_next[q_loc[t].last], q_nstamp[q_loc[t].last],
                         q_loc[t].next, q_loc[t].next_stamp)
             THEN /\ q_next' = [q_next EXCEPT ![q_loc[t].last] = q_loc[t].node]
                  /\ q_nstamp' = [q_nstamp EXCEPT ![q_loc[t].last] = q_loc[t].next_stamp + 1]
                  /\ q_enq' = Append(q_enq, q_loc[t].value)
                  /\ Q_goto(t, "lqr_l107", q_loc[t])
             ELSE /\ Q_goto(t, "lqr_l95", q_loc[t])
                  /\ UNCHANGED <<q_next, q_nstamp, q_enq>>
        /\ UNCHANGED <<q_value, q_head, q_tail, q_nalloc, q_nval, q_stamps, q_pool, q_deq,
                      q_taken>>
     \/ /\ pc[t] = "lqr_l107"       \* tail_.compare_and_swap(last, node, last_stamp, last_stamp + 1); return
        /\ IF ASP_cas_ok(q_tail, q_stamps.tail, q_loc[t].last, q_loc[t].last_stamp)
             THEN /\ q_tail' = q_loc[t].node
                  /\ q_stamps' = [q_stamps EXCEPT !.tail = q_loc[t].last_stamp + 1]
             ELSE UNCHANGED <<q_tail, q_stamps>>
        /\ Q_return(t, q_loc[t].value)
        /\ UNCHANGED <<q_value, q_next, q_head, q_nalloc, q_nval, q_nstamp, q_pool, q_enq,
                      q_deq, q_taken>>
     \/ /\ pc[t] = "lqr_l114"       \* tail_.compare_and_swap(last, next, last_stamp, last_stamp + 1)
        /\ IF ASP_cas_ok(q_tail, q_stamps.tail, q_loc[t].last, q_loc[t].last_stamp)
             THEN /\ q_tail' = q_loc[t].next
                  /\ q_stamps' = [q_stamps EXCEPT !.tail = q_loc[t].last_stamp + 1]
             ELSE UNCHANGED <<q_tail, q_stamps>>
        /\ Q_goto(t, "lqr_l95", q_loc[t])
        /\ UNCHANGED <<q_value, q_next, q_head, q_nalloc, q_nval, q_nstamp, q_pool, q_enq,
                      q_deq, q_taken>>
  /\ UNCHANGED <<lockKind, numIter, counter, prev, fifo_queue, q_garbage, qLock,
                 others_DS, blVars, others_Q>>
  /\ Q_Observe

LockFreeQueueRecycle_dequeue(t) ==
  /\ lockKind = "LockFreeQueueRecycle"
  /\ \/ /\ Q_call_dequeue(t, "lqr_l126")
        /\ UNCHANGED <<q_next, q_head, q_tail, q_nstamp, q_stamps, q_pool, q_enq, q_deq,
                      q_taken>>
     \/ /\ pc[t] = "lqr_l126"       \* [first, first_stamp] = head_.get()
        /\ Q_goto(t, "lqr_l128", [q_loc[t] EXCEPT !.first = q_head, !.first_stamp = q_stamps.head])
        /\ UNCHANGED <<q_value, q_next, q_head, q_tail, q_nalloc, q_nval, q_nstamp,
                      q_stamps, q_pool, q_enq, q_deq, q_taken>>
     \/ /\ pc[t] = "lqr_l128"       \* [last, last_stamp] = tail_.get()
        /\ Q_goto(t, "lqr_l130", [q_loc[t] EXCEPT !.last = q_tail, !.last_stamp = q_stamps.tail])
        /\ UNCHANGED <<q_value, q_next, q_head, q_tail, q_nalloc, q_nval, q_nstamp,
                      q_stamps, q_pool, q_enq, q_deq, q_taken>>
     \/ /\ pc[t] = "lqr_l130"       \* [next, next_stamp] = first->next_.get()
        /\ Q_goto(t, "lqr_l132", [q_loc[t] EXCEPT !.next = q_next[q_loc[t].first],
                                                  !.next_stamp = q_nstamp[q_loc[t].first]])
        /\ UNCHANGED <<q_value, q_next, q_head, q_tail, q_nalloc, q_nval, q_nstamp,
                      q_stamps, q_pool, q_enq, q_deq, q_taken>>
     \/ /\ pc[t] = "lqr_l132"       \* if (first_stamp == head_.get_stamp()) ... throw EmptyException
        /\ IF q_loc[t].first_stamp = q_stamps.head /\ q_loc[t].first = q_loc[t].last
                /\ q_loc[t].next = Null
             THEN Q_return(t, Q_Empty)
             ELSE Q_goto(t, IF q_loc[t].first_stamp # q_stamps.head THEN "lqr_l126"
                            ELSE IF q_loc[t].first = q_loc[t].last THEN "lqr_l138"
                            ELSE "lqr_l144",
                         q_loc[t])
        /\ UNCHANGED <<q_value, q_next, q_head, q_tail, q_nalloc, q_nval, q_nstamp,
                      q_stamps, q_pool, q_enq, q_deq, q_taken>>
     \/ /\ pc[t] = "lqr_l138"       \* tail_.compare_and_swap(last, next, last_stamp, last_stamp + 1)
        /\ IF ASP_cas_ok(q_tail, q_stamps.tail, q_loc[t].last, q_loc[t].last_stamp)
             THEN /\ q_tail' = q_loc[t].next
                  /\ q_stamps' = [q_stamps EXCEPT !.tail = q_loc[t].last_stamp + 1]
             ELSE UNCHANGED <<q_tail, q_stamps>>
        /\ Q_goto(t, "lqr_l126", q_loc[t])
        /\ UNCHANGED <<q_value, q_next, q_head, q_nalloc, q_nval, q_nstamp, q_pool, q_enq,
                      q_deq, q_taken>>
     \/ /\ pc[t] = "lqr_l144"       \* head_.compare_and_swap(first, next, first_stamp, first_stamp + 1)
        /\ IF ASP_cas_ok(q_head, q_stamps.head, q_loc[t].first, q_loc[t].first_stamp)
             THEN /\ q_head' = q_loc[t].next
                  /\ q_stamps' = [q_stamps EXCEPT !.head = q_loc[t].first_stamp + 1]
                  /\ q_deq' = Append(q_deq, q_value[q_loc[t].next])
                  /\ q_taken' = [q_taken EXCEPT ![t] = q_value[q_loc[t].next]]
                  /\ Q_goto(t, "lqr_l146", q_loc[t])
             ELSE /\ Q_goto(t, "lqr_l126", q_loc[t])
                  /\ UNCHANGED <<q_head, q_stamps, q_deq, q_taken>>
        /\ UNCHANGED <<q_value, q_next, q_tail, q_nalloc, q_nval, q_nstamp, q_pool, q_enq>>
     \/ /\ pc[t] = "lqr_l146"       \* value = next->value_.value(); node_pool_.free(first)
        /\ Q_goto(t, "lqr_l64", [q_loc[t] EXCEPT !.value = q_value[q_loc[t].next]])
        /\ UNCHANGED <<q_value, q_next, q_head, q_tail, q_nalloc, q_nval, q_nstamp,
                      q_stamps, q_pool, q_enq, q_deq, q_taken>>
     \/ /\ pc[t] = "lqr_l64"        \* free: [head, stamp] = unused_nodes_.get()
        /\ Q_goto(t, "lqr_l66", [q_loc[t] EXCEPT !.head = q_pool, !.stamp = q_stamps.pool])
        /\ UNCHANGED <<q_value, q_next, q_head, q_tail, q_nalloc, q_nval, q_nstamp,
                      q_stamps, q_pool, q_enq, q_deq, q_taken>>
     \/ /\ pc[t] = "lqr_l66"        \* node->next_.set(head, 0)
        /\ q_next' = [q_next EXCEPT ![q_loc[t].first] = q_loc[t].head]
        /\ q_nstamp' = [q_nstamp EXCEPT ![q_loc[t].first] = 0]
        /\ Q_goto(t, "lqr_l69", q_loc[t])
        /\ UNCHANGED <<q_value, q_head, q_tail, q_nalloc, q_nval, q_stamps, q_pool, q_enq,
                      q_deq, q_taken>>
     \/ /\ pc[t] = "lqr_l69"        \* unused_nodes_.compare_and_swap(head, node, stamp, stamp + 1); return value
        /\ IF ASP_cas_ok(q_pool, q_stamps.pool, q_loc[t].head, q_loc[t].stamp)
             THEN /\ q_pool' = q_loc[t].first
                  /\ q_stamps' = [q_stamps EXCEPT !.pool = q_loc[t].stamp + 1]
                  /\ Q_return(t, q_loc[t].value)
             ELSE /\ Q_goto(t, "lqr_l64", q_loc[t])
                  /\ UNCHANGED <<q_pool, q_stamps>>
        /\ UNCHANGED <<q_value, q_next, q_head, q_tail, q_nalloc, q_nval, q_nstamp, q_enq,
                      q_deq, q_taken>>
  /\ UNCHANGED <<lockKind, numIter, counter, prev, fifo_queue, q_garbage, qLock,
                 others_DS, blVars, others_Q>>
  /\ Q_Observe

(***************************************************************************)
(* UnboundedQueue (unbounded_queue.h): two locks.  A label uq_lN is line   *)
(* N.  next_ is a plain pointer that the enqueuer writes and the dequeuer  *)
(* reads under different locks: a read returns what was there before the   *)
(* write or after it.  q_garbage holds the nodes dequeue has deleted.      *)
(***************************************************************************)

\* TTASLock::lock returns: the flag of mutex m was clear.
Q_mutex_free_bug(m) == TRUE
Q_mutex_free(m) == ~q_mutex[m]

UnboundedQueue_enqueue(t) ==
  /\ lockKind = "UnboundedQueue"
  /\ \/ /\ Q_call_enqueue(t, "uq_l43")
        /\ UNCHANGED <<q_next, q_head, q_tail, q_garbage, q_enq, q_deq, q_taken, q_mutex>>
     \/ /\ pc[t] = "uq_l43"         \* ScopedLock scoped_lock{enq_mutex_}
        /\ Q_mutex_free("enq")
        /\ q_mutex' = [q_mutex EXCEPT !.enq = TRUE]
        /\ Q_goto(t, "uq_l45", q_loc[t])
        /\ UNCHANGED <<q_value, q_next, q_head, q_tail, q_nalloc, q_nval, q_garbage,
                      q_enq, q_deq, q_taken>>
     \/ /\ pc[t] = "uq_l45"         \* tail_->next_ = node
        /\ q_next' = [q_next EXCEPT ![q_tail] = q_loc[t].node]
        /\ q_enq' = Append(q_enq, q_loc[t].value)
        /\ Q_goto(t, "uq_l46", q_loc[t])
        /\ UNCHANGED <<q_value, q_head, q_tail, q_nalloc, q_nval, q_garbage, q_deq,
                      q_taken, q_mutex>>
     \/ /\ pc[t] = "uq_l46"         \* tail_ = node; enq_mutex_ is released; return
        /\ q_tail' = q_loc[t].node
        /\ q_mutex' = [q_mutex EXCEPT !.enq = FALSE]
        /\ Q_return(t, q_loc[t].value)
        /\ UNCHANGED <<q_value, q_next, q_head, q_nalloc, q_nval, q_garbage, q_enq, q_deq,
                      q_taken>>
  /\ UNCHANGED <<lockKind, numIter, counter, prev, fifo_queue, qRecycle, q_size,
                 q_waiters, q_signal, q_to_notify, others_DS, blVars, others_Q>>
  /\ Q_Observe

UnboundedQueue_dequeue(t) ==
  /\ lockKind = "UnboundedQueue"
  /\ \/ /\ Q_call_dequeue(t, "uq_l50")
        /\ UNCHANGED <<q_next, q_head, q_tail, q_garbage, q_enq, q_deq, q_taken, q_mutex>>
     \/ /\ pc[t] = "uq_l50"         \* ScopedLock scoped_lock{deq_mutex_}
        /\ Q_mutex_free("deq")
        /\ q_mutex' = [q_mutex EXCEPT !.deq = TRUE]
        /\ Q_goto(t, "uq_l51", q_loc[t])
        /\ UNCHANGED <<q_value, q_next, q_head, q_tail, q_nalloc, q_nval, q_garbage,
                      q_enq, q_deq, q_taken>>
     \/ /\ pc[t] = "uq_l51"         \* if (head_->next_ == nullptr)
        /\ Q_goto(t, IF q_next[q_head] = Null THEN "uq_l52" ELSE "uq_l55", q_loc[t])
        /\ UNCHANGED <<q_value, q_next, q_head, q_tail, q_nalloc, q_nval, q_garbage,
                      q_enq, q_deq, q_taken, q_mutex>>
     \/ /\ pc[t] = "uq_l52"         \* throw EmptyException: deq_mutex_ is released
        /\ q_mutex' = [q_mutex EXCEPT !.deq = FALSE]
        /\ Q_return(t, Q_Empty)
        /\ UNCHANGED <<q_value, q_next, q_head, q_tail, q_nalloc, q_nval, q_garbage,
                      q_enq, q_deq, q_taken>>
     \/ /\ pc[t] = "uq_l55"         \* value = head_->next_->value_.value()
        /\ Q_goto(t, "uq_l57", [q_loc[t] EXCEPT !.value = q_value[q_next[q_head]]])
        /\ UNCHANGED <<q_value, q_next, q_head, q_tail, q_nalloc, q_nval, q_garbage,
                      q_enq, q_deq, q_taken, q_mutex>>
     \/ /\ pc[t] = "uq_l57"         \* old_head = head_; head_ = head_->next_
        /\ q_head' = q_next[q_head]
        /\ q_deq' = Append(q_deq, q_value[q_next[q_head]])
        /\ q_taken' = [q_taken EXCEPT ![t] = q_value[q_next[q_head]]]
        /\ Q_goto(t, "uq_l58", [q_loc[t] EXCEPT !.first = q_head])
        /\ UNCHANGED <<q_value, q_next, q_tail, q_nalloc, q_nval, q_garbage, q_enq,
                      q_mutex>>
     \/ /\ pc[t] = "uq_l58"         \* delete old_head
        /\ q_garbage' = q_garbage \cup {q_loc[t].first}
        /\ Q_goto(t, "uq_l60", q_loc[t])
        /\ UNCHANGED <<q_value, q_next, q_head, q_tail, q_nalloc, q_nval, q_enq, q_deq,
                      q_taken, q_mutex>>
     \/ /\ pc[t] = "uq_l60"         \* return value: deq_mutex_ is released
        /\ q_mutex' = [q_mutex EXCEPT !.deq = FALSE]
        /\ Q_return(t, q_loc[t].value)
        /\ UNCHANGED <<q_value, q_next, q_head, q_tail, q_nalloc, q_nval, q_garbage,
                      q_enq, q_deq, q_taken>>
  /\ UNCHANGED <<lockKind, numIter, counter, prev, fifo_queue, qRecycle, q_size,
                 q_waiters, q_signal, q_to_notify, others_DS, blVars, others_Q>>
  /\ Q_Observe

(***************************************************************************)
(* BoundedQueue (bounded_queue.h).  A label bq_lN is line N of it; bq_wN   *)
(* and bq_nN are the lines of wait and notify_all of condition_variable.h, *)
(* run on the condition q_loc[t].cv with the mutex that goes with it.  The *)
(* parts of wait and notify_all under waiters_lock_ are one step each.     *)
(***************************************************************************)

\* The mutex held around the calls on a condition.
BQ_mutex_of(c) == IF c = "not_full" THEN "enq" ELSE "deq"

\* The test of the loop of enqueue, on the size_ it loaded.
BQ_full_bug(size) == FALSE
BQ_full(size) == size = BQCapacity

\* Whether the enqueue has to wake the dequeuers, from what fetch_add returned.
BQ_must_wake_dequeuers_bug(old) == FALSE
BQ_must_wake_dequeuers(old) == old = 0

BoundedQueue_enqueue(t) ==
  /\ lockKind = "BoundedQueue"
  /\ \/ /\ Q_call_enqueue(t, "bq_l32")
        /\ UNCHANGED <<q_next, q_head, q_tail, q_enq, q_deq, q_taken, q_mutex, q_size,
                      q_waiters, q_signal, q_to_notify>>
     \/ /\ pc[t] = "bq_l32"         \* ScopedLock scoped_lock{enq_mutex_}
        /\ Q_mutex_free("enq")
        /\ q_mutex' = [q_mutex EXCEPT !.enq = TRUE]
        /\ Q_goto(t, "bq_l34", q_loc[t])
        /\ UNCHANGED <<q_value, q_next, q_head, q_tail, q_nalloc, q_nval, q_enq, q_deq,
                      q_taken, q_size, q_waiters, q_signal, q_to_notify>>
     \/ /\ pc[t] = "bq_l34"         \* while (size_.load() == capacity_) not_full_condition_.wait(enq_mutex_)
        /\ Q_goto(t, IF BQ_full(q_size) THEN "bq_w77" ELSE "bq_l38",
                  [q_loc[t] EXCEPT !.cv = IF BQ_full(q_size) THEN "not_full" ELSE "none"])
        /\ UNCHANGED <<q_value, q_next, q_head, q_tail, q_nalloc, q_nval, q_enq, q_deq,
                      q_taken, q_mutex, q_size, q_waiters, q_signal, q_to_notify>>
     \/ /\ pc[t] = "bq_l38"         \* tail_->next_ = node
        /\ q_next' = [q_next EXCEPT ![q_tail] = q_loc[t].node]
        /\ q_enq' = Append(q_enq, q_loc[t].value)
        /\ Q_goto(t, "bq_l39", q_loc[t])
        /\ UNCHANGED <<q_value, q_head, q_tail, q_nalloc, q_nval, q_deq, q_taken, q_mutex,
                      q_size, q_waiters, q_signal, q_to_notify>>
     \/ /\ pc[t] = "bq_l39"         \* tail_ = node; if (size_.fetch_add(1) == 0) must_wake_dequeuers = true
        /\ q_tail' = q_loc[t].node
        /\ q_size' = (q_size + 1) % 2^BQSizeBits
        /\ Q_goto(t, "bq_l44", [q_loc[t] EXCEPT !.must_wake = BQ_must_wake_dequeuers(q_size)])
        /\ UNCHANGED <<q_value, q_next, q_head, q_nalloc, q_nval, q_enq, q_deq, q_taken,
                      q_mutex, q_waiters, q_signal, q_to_notify>>
     \/ /\ pc[t] = "bq_l44"         \* enq_mutex_ is released; if (must_wake_dequeuers)
        /\ q_mutex' = [q_mutex EXCEPT !.enq = FALSE]
        /\ IF q_loc[t].must_wake
             THEN Q_goto(t, "bq_l50", [q_loc[t] EXCEPT !.cv = "not_empty"])
             ELSE Q_return(t, q_loc[t].value)
        /\ UNCHANGED <<q_value, q_next, q_head, q_tail, q_nalloc, q_nval, q_enq, q_deq,
                      q_taken, q_size, q_waiters, q_signal, q_to_notify>>
     \/ /\ pc[t] = "bq_l50"         \* ScopedLock scoped_lock{deq_mutex_}; not_empty_condition_.notify_all()
        /\ Q_mutex_free("deq")
        /\ q_mutex' = [q_mutex EXCEPT !.deq = TRUE]
        /\ Q_goto(t, "bq_n56", q_loc[t])
        /\ UNCHANGED <<q_value, q_next, q_head, q_tail, q_nalloc, q_nval, q_enq, q_deq,
                      q_taken, q_size, q_waiters, q_signal, q_to_notify>>
  /\ UNCHANGED <<lockKind, numIter, counter, prev, fifo_queue, qRecycle, q_garbage,
                 others_DS, blVars, others_Q>>
  /\ Q_Observe

BoundedQueue_dequeue(t) ==
  /\ lockKind = "BoundedQueue"
  /\ \/ /\ Q_call_dequeue(t, "bq_l59")
        /\ UNCHANGED <<q_next, q_head, q_tail, q_enq, q_deq, q_taken, q_mutex, q_size,
                      q_waiters, q_signal, q_to_notify>>
     \/ /\ pc[t] = "bq_l59"         \* ScopedLock scoped_lock{deq_mutex_}
        /\ Q_mutex_free("deq")
        /\ q_mutex' = [q_mutex EXCEPT !.deq = TRUE]
        /\ Q_goto(t, "bq_l61", q_loc[t])
        /\ UNCHANGED <<q_value, q_next, q_head, q_tail, q_nalloc, q_nval, q_enq, q_deq,
                      q_taken, q_size, q_waiters, q_signal, q_to_notify>>
     \/ /\ pc[t] = "bq_l61"         \* while (head_->next_ == nullptr) not_empty_condition_.wait(deq_mutex_)
        /\ Q_goto(t, IF q_next[q_head] = Null THEN "bq_w77" ELSE "bq_l65",
                  [q_loc[t] EXCEPT !.cv = IF q_next[q_head] = Null THEN "not_empty" ELSE "none"])
        /\ UNCHANGED <<q_value, q_next, q_head, q_tail, q_nalloc, q_nval, q_enq, q_deq,
                      q_taken, q_mutex, q_size, q_waiters, q_signal, q_to_notify>>
     \/ /\ pc[t] = "bq_l65"         \* value = head_->next_->value_.value()
        /\ Q_goto(t, "bq_l66", [q_loc[t] EXCEPT !.value = q_value[q_next[q_head]]])
        /\ UNCHANGED <<q_value, q_next, q_head, q_tail, q_nalloc, q_nval, q_enq, q_deq,
                      q_taken, q_mutex, q_size, q_waiters, q_signal, q_to_notify>>
     \/ /\ pc[t] = "bq_l66"         \* head_ = head_->next_
        /\ q_head' = q_next[q_head]
        /\ q_deq' = Append(q_deq, q_value[q_next[q_head]])
        /\ q_taken' = [q_taken EXCEPT ![t] = q_value[q_next[q_head]]]
        /\ Q_goto(t, "bq_l68", q_loc[t])
        /\ UNCHANGED <<q_value, q_next, q_tail, q_nalloc, q_nval, q_enq, q_mutex, q_size,
                      q_waiters, q_signal, q_to_notify>>
     \/ /\ pc[t] = "bq_l68"         \* if (size_.fetch_sub(1) == capacity_) must_wake_enqueuers = true
        /\ q_size' = (q_size - 1) % 2^BQSizeBits
        /\ Q_goto(t, "bq_l71", [q_loc[t] EXCEPT !.must_wake = (q_size = BQCapacity)])
        /\ UNCHANGED <<q_value, q_next, q_head, q_tail, q_nalloc, q_nval, q_enq, q_deq,
                      q_taken, q_mutex, q_waiters, q_signal, q_to_notify>>
     \/ /\ pc[t] = "bq_l71"         \* deq_mutex_ is released; if (must_wake_enqueuers)
        /\ q_mutex' = [q_mutex EXCEPT !.deq = FALSE]
        /\ IF q_loc[t].must_wake
             THEN Q_goto(t, "bq_l77", [q_loc[t] EXCEPT !.cv = "not_full"])
             ELSE Q_return(t, q_loc[t].value)
        /\ UNCHANGED <<q_value, q_next, q_head, q_tail, q_nalloc, q_nval, q_enq, q_deq,
                      q_taken, q_size, q_waiters, q_signal, q_to_notify>>
     \/ /\ pc[t] = "bq_l77"         \* ScopedLock scoped_lock{enq_mutex_}; not_full_condition_.notify_all()
        /\ Q_mutex_free("enq")
        /\ q_mutex' = [q_mutex EXCEPT !.enq = TRUE]
        /\ Q_goto(t, "bq_n56", q_loc[t])
        /\ UNCHANGED <<q_value, q_next, q_head, q_tail, q_nalloc, q_nval, q_enq, q_deq,
                      q_taken, q_size, q_waiters, q_signal, q_to_notify>>
  /\ UNCHANGED <<lockKind, numIter, counter, prev, fifo_queue, qRecycle, q_garbage,
                 others_DS, blVars, others_Q>>
  /\ Q_Observe

\* wait and notify_all of the ConditionVariable, as enqueue and dequeue call them.
BoundedQueue_condition(t) ==
  /\ lockKind = "BoundedQueue"
  /\ \/ /\ pc[t] = "bq_w77"         \* wait: signal = new atomic<bool>(false); waiters_.push_back(signal)
        /\ q_signal' = [q_signal EXCEPT ![t] = FALSE]
        /\ q_waiters' = [q_waiters EXCEPT ![q_loc[t].cv] = Append(@, t)]
        /\ Q_goto(t, "bq_w82", q_loc[t])
        /\ UNCHANGED <<q_value, q_next, q_head, q_tail, q_nalloc, q_nval, q_enq, q_deq,
                      q_taken, q_mutex, q_size, q_to_notify>>
     \/ /\ pc[t] = "bq_w82"         \* lock.unlock()
        /\ q_mutex' = [q_mutex EXCEPT ![BQ_mutex_of(q_loc[t].cv)] = FALSE]
        /\ Q_goto(t, "bq_w85", q_loc[t])
        /\ UNCHANGED <<q_value, q_next, q_head, q_tail, q_nalloc, q_nval, q_enq, q_deq,
                      q_taken, q_size, q_waiters, q_signal, q_to_notify>>
     \/ /\ pc[t] = "bq_w85"         \* while (!signal->load()) yield; delete signal
        /\ q_signal[t]
        /\ q_signal' = [q_signal EXCEPT ![t] = FALSE]
        /\ Q_goto(t, "bq_w93", q_loc[t])
        /\ UNCHANGED <<q_value, q_next, q_head, q_tail, q_nalloc, q_nval, q_enq, q_deq,
                      q_taken, q_mutex, q_size, q_waiters, q_to_notify>>
     \/ /\ pc[t] = "bq_w93"         \* lock.lock(); return to the loop that called wait
        /\ Q_mutex_free(BQ_mutex_of(q_loc[t].cv))
        /\ q_mutex' = [q_mutex EXCEPT ![BQ_mutex_of(q_loc[t].cv)] = TRUE]
        /\ Q_goto(t, IF q_op[t] = "enqueue" THEN "bq_l34" ELSE "bq_l61",
                  [q_loc[t] EXCEPT !.cv = "none"])
        /\ UNCHANGED <<q_value, q_next, q_head, q_tail, q_nalloc, q_nval, q_enq, q_deq,
                      q_taken, q_size, q_waiters, q_signal, q_to_notify>>
     \/ /\ pc[t] = "bq_n56"         \* notify_all: move all of waiters_ to to_notify
        /\ q_to_notify' = [q_to_notify EXCEPT ![t] = q_waiters[q_loc[t].cv]]
        /\ q_waiters' = [q_waiters EXCEPT ![q_loc[t].cv] = <<>>]
        /\ Q_goto(t, IF q_waiters[q_loc[t].cv] = <<>> THEN "bq_unlock" ELSE "bq_n66", q_loc[t])
        /\ UNCHANGED <<q_value, q_next, q_head, q_tail, q_nalloc, q_nval, q_enq, q_deq,
                      q_taken, q_mutex, q_size, q_signal>>
     \/ /\ pc[t] = "bq_n66"         \* signal->store(true), one signal of to_notify
        /\ q_signal' = [q_signal EXCEPT ![Head(q_to_notify[t])] = TRUE]
        /\ q_to_notify' = [q_to_notify EXCEPT ![t] = Tail(@)]
        /\ Q_goto(t, IF Len(q_to_notify[t]) = 1 THEN "bq_unlock" ELSE "bq_n66", q_loc[t])
        /\ UNCHANGED <<q_value, q_next, q_head, q_tail, q_nalloc, q_nval, q_enq, q_deq,
                      q_taken, q_mutex, q_size, q_waiters>>
     \/ /\ pc[t] = "bq_unlock"      \* the mutex taken for the notification is released; return
        /\ q_mutex' = [q_mutex EXCEPT ![BQ_mutex_of(q_loc[t].cv)] = FALSE]
        /\ Q_return(t, q_loc[t].value)
        /\ UNCHANGED <<q_value, q_next, q_head, q_tail, q_nalloc, q_nval, q_enq, q_deq,
                      q_taken, q_size, q_waiters, q_signal, q_to_notify>>
  /\ UNCHANGED <<lockKind, numIter, counter, prev, fifo_queue, qRecycle, q_garbage,
                 others_DS, blVars, others_Q>>
  /\ Q_Observe

(***************************************************************************)
(* SynchronousQueue (synchronous_queue.h).  A label sq_lN is line N of it; *)
(* sq_wN and sq_nN are the lines of wait and notify_all of                 *)
(* condition_variable.h on cv_ with mutex_; q_loc[t].ret is the line the   *)
(* call returns to.                                                        *)
(***************************************************************************)

SQThreads == 1..SQNumThreads

\* The loop of line 14 lets the enqueuer through: nobody is publishing.
SQ_may_publish_bug(enqueuing) == TRUE
SQ_may_publish(enqueuing) == ~enqueuing

SynchronousQueue_enqueue(t) ==
  /\ lockKind = "SynchronousQueue"
  /\ \/ /\ Q_call_enqueue(t, "sq_l13")
        /\ UNCHANGED <<sq_item, sq_enqueuing, sq_published, sq_consumed, q_mutex,
                      q_waiters, q_signal, q_to_notify>>
     \/ /\ pc[t] = "sq_l13"         \* ScopedLock lock(mutex_)
        /\ Q_mutex_free("mutex")
        /\ q_mutex' = [q_mutex EXCEPT !.mutex = TRUE]
        /\ Q_goto(t, "sq_l14", q_loc[t])
        /\ UNCHANGED <<sq_item, sq_enqueuing, sq_published, sq_consumed, q_waiters,
                      q_signal, q_to_notify, q_value, q_nalloc, q_nval>>
     \/ /\ pc[t] = "sq_l14"         \* while (enqueuing_) cv_.wait(mutex_)
        /\ IF SQ_may_publish(sq_enqueuing)
             THEN Q_goto(t, "sq_l17", q_loc[t])
             ELSE Q_goto(t, "sq_w77", [q_loc[t] EXCEPT !.ret = "sq_l14"])
        /\ UNCHANGED <<sq_item, sq_enqueuing, sq_published, sq_consumed, q_mutex,
                      q_waiters, q_signal, q_to_notify, q_value, q_nalloc, q_nval>>
     \/ /\ pc[t] = "sq_l17"         \* enqueuing_ = true
        /\ sq_enqueuing' = TRUE
        /\ Q_goto(t, "sq_l18", q_loc[t])
        /\ UNCHANGED <<sq_item, sq_published, sq_consumed, q_mutex, q_waiters, q_signal,
                      q_to_notify, q_value, q_nalloc, q_nval>>
     \/ /\ pc[t] = "sq_l18"         \* item_ = value; cv_.notify_all()
        /\ sq_item' = q_loc[t].value
        /\ sq_published' = Append(sq_published, q_loc[t].value)
        /\ Q_goto(t, "sq_n56", [q_loc[t] EXCEPT !.ret = "sq_l20"])
        /\ UNCHANGED <<sq_enqueuing, sq_consumed, q_mutex, q_waiters, q_signal,
                      q_to_notify, q_value, q_nalloc, q_nval>>
     \/ /\ pc[t] = "sq_l20"         \* while (item_.has_value()) cv_.wait(mutex_)
        /\ IF sq_item # 0
             THEN Q_goto(t, "sq_w77", [q_loc[t] EXCEPT !.ret = "sq_l20"])
             ELSE Q_goto(t, "sq_l23", q_loc[t])
        /\ UNCHANGED <<sq_item, sq_enqueuing, sq_published, sq_consumed, q_mutex,
                      q_waiters, q_signal, q_to_notify, q_value, q_nalloc, q_nval>>
     \/ /\ pc[t] = "sq_l23"         \* enqueuing_ = false; cv_.notify_all()
        /\ sq_enqueuing' = FALSE
        /\ Q_goto(t, "sq_n56", [q_loc[t] EXCEPT !.ret = "sq_l25"])
        /\ UNCHANGED <<sq_item, sq_published, sq_consumed, q_mutex, q_waiters, q_signal,
                      q_to_notify, q_value, q_nalloc, q_nval>>
     \/ /\ pc[t] = "sq_l25"         \* mutex_ is released; return
        /\ q_mutex' = [q_mutex EXCEPT !.mutex = FALSE]
        /\ Q_return(t, q_loc[t].value)
        /\ UNCHANGED <<sq_item, sq_enqueuing, sq_published, sq_consumed, q_waiters,
                      q_signal, q_to_notify, q_value, q_nalloc, q_nval>>
  /\ UNCHANGED <<lockKind, numIter, counter, prev, fifo_queue, q_next, q_head, q_tail,
                 q_garbage, qRecycle, q_size, qHist, others_DS, blVars, esVars, aspVars,
                 hpVars>>

SynchronousQueue_dequeue(t) ==
  /\ lockKind = "SynchronousQueue"
  /\ \/ /\ Q_call_dequeue(t, "sq_l28")
        /\ UNCHANGED <<sq_item, sq_enqueuing, sq_published, sq_consumed, q_mutex,
                      q_waiters, q_signal, q_to_notify>>
     \/ /\ pc[t] = "sq_l28"         \* ScopedLock lock(mutex_)
        /\ Q_mutex_free("mutex")
        /\ q_mutex' = [q_mutex EXCEPT !.mutex = TRUE]
        /\ Q_goto(t, "sq_l29", q_loc[t])
        /\ UNCHANGED <<sq_item, sq_enqueuing, sq_published, sq_consumed, q_waiters,
                      q_signal, q_to_notify, q_value, q_nalloc, q_nval>>
     \/ /\ pc[t] = "sq_l29"         \* while (!item_.has_value()) cv_.wait(mutex_)
        /\ IF sq_item = 0
             THEN Q_goto(t, "sq_w77", [q_loc[t] EXCEPT !.ret = "sq_l29"])
             ELSE Q_goto(t, "sq_l32", q_loc[t])
        /\ UNCHANGED <<sq_item, sq_enqueuing, sq_published, sq_consumed, q_mutex,
                      q_waiters, q_signal, q_to_notify, q_value, q_nalloc, q_nval>>
     \/ /\ pc[t] = "sq_l32"         \* t = std::move(item_.value())
        /\ Q_goto(t, "sq_l33", [q_loc[t] EXCEPT !.value = sq_item])
        /\ UNCHANGED <<sq_item, sq_enqueuing, sq_published, sq_consumed, q_mutex,
                      q_waiters, q_signal, q_to_notify, q_value, q_nalloc, q_nval>>
     \/ /\ pc[t] = "sq_l33"         \* item_ = std::nullopt; cv_.notify_all()
        /\ sq_item' = 0
        /\ sq_consumed' = Append(sq_consumed, q_loc[t].value)
        /\ Q_goto(t, "sq_n56", [q_loc[t] EXCEPT !.ret = "sq_l35"])
        /\ UNCHANGED <<sq_enqueuing, sq_published, q_mutex, q_waiters, q_signal,
                      q_to_notify, q_value, q_nalloc, q_nval>>
     \/ /\ pc[t] = "sq_l35"         \* return t: mutex_ is released
        /\ q_mutex' = [q_mutex EXCEPT !.mutex = FALSE]
        /\ Q_return(t, q_loc[t].value)
        /\ UNCHANGED <<sq_item, sq_enqueuing, sq_published, sq_consumed, q_waiters,
                      q_signal, q_to_notify, q_value, q_nalloc, q_nval>>
  /\ UNCHANGED <<lockKind, numIter, counter, prev, fifo_queue, q_next, q_head, q_tail,
                 q_garbage, qRecycle, q_size, qHist, others_DS, blVars, esVars, aspVars,
                 hpVars>>

\* wait and notify_all of cv_, as enqueue and dequeue call them.
SynchronousQueue_condition(t) ==
  /\ lockKind = "SynchronousQueue"
  /\ \/ /\ pc[t] = "sq_w77"         \* wait: signal = new atomic<bool>(false); waiters_.push_back(signal)
        /\ q_signal' = [q_signal EXCEPT ![t] = FALSE]
        /\ q_waiters' = [q_waiters EXCEPT !.cv = Append(@, t)]
        /\ Q_goto(t, "sq_w82", q_loc[t])
        /\ UNCHANGED <<sq_item, sq_enqueuing, sq_published, sq_consumed, q_mutex,
                      q_to_notify, q_value, q_nalloc, q_nval>>
     \/ /\ pc[t] = "sq_w82"         \* lock.unlock()
        /\ q_mutex' = [q_mutex EXCEPT !.mutex = FALSE]
        /\ Q_goto(t, "sq_w85", q_loc[t])
        /\ UNCHANGED <<sq_item, sq_enqueuing, sq_published, sq_consumed, q_waiters,
                      q_signal, q_to_notify, q_value, q_nalloc, q_nval>>
     \/ /\ pc[t] = "sq_w85"         \* while (!signal->load()) yield; delete signal
        /\ q_signal[t]
        /\ q_signal' = [q_signal EXCEPT ![t] = FALSE]
        /\ Q_goto(t, "sq_w93", q_loc[t])
        /\ UNCHANGED <<sq_item, sq_enqueuing, sq_published, sq_consumed, q_mutex,
                      q_waiters, q_to_notify, q_value, q_nalloc, q_nval>>
     \/ /\ pc[t] = "sq_w93"         \* lock.lock(); return to the loop that called wait
        /\ Q_mutex_free("mutex")
        /\ q_mutex' = [q_mutex EXCEPT !.mutex = TRUE]
        /\ Q_goto(t, q_loc[t].ret, [q_loc[t] EXCEPT !.ret = "none"])
        /\ UNCHANGED <<sq_item, sq_enqueuing, sq_published, sq_consumed, q_waiters,
                      q_signal, q_to_notify, q_value, q_nalloc, q_nval>>
     \/ /\ pc[t] = "sq_n56"         \* notify_all: move all of waiters_ to to_notify
        /\ q_to_notify' = [q_to_notify EXCEPT ![t] = q_waiters.cv]
        /\ q_waiters' = [q_waiters EXCEPT !.cv = <<>>]
        /\ IF q_waiters.cv = <<>>
             THEN Q_goto(t, q_loc[t].ret, [q_loc[t] EXCEPT !.ret = "none"])
             ELSE Q_goto(t, "sq_n66", q_loc[t])
        /\ UNCHANGED <<sq_item, sq_enqueuing, sq_published, sq_consumed, q_mutex,
                      q_signal, q_value, q_nalloc, q_nval>>
     \/ /\ pc[t] = "sq_n66"         \* signal->store(true), one signal of to_notify
        /\ q_signal' = [q_signal EXCEPT ![Head(q_to_notify[t])] = TRUE]
        /\ q_to_notify' = [q_to_notify EXCEPT ![t] = Tail(@)]
        /\ IF Len(q_to_notify[t]) = 1
             THEN Q_goto(t, q_loc[t].ret, [q_loc[t] EXCEPT !.ret = "none"])
             ELSE Q_goto(t, "sq_n66", q_loc[t])
        /\ UNCHANGED <<sq_item, sq_enqueuing, sq_published, sq_consumed, q_mutex,
                      q_waiters, q_value, q_nalloc, q_nval>>
  /\ UNCHANGED <<lockKind, numIter, counter, prev, fifo_queue, q_next, q_head, q_tail,
                 q_garbage, qRecycle, q_size, qHist, others_DS, blVars, esVars, aspVars,
                 hpVars>>

(***************************************************************************)
(* EliminationBackoffStack and LockFreeExchanger                           *)
(* (elimination_backoff_stack.h).  A label es_lN is line N of the stack,   *)
(* ex_lN line N of exchange.  The clock of exchange is not modelled: each  *)
(* comparison of the time with time_bound may come out either way.  The    *)
(* stack starts with ESInitial items; the nodes popped are chained in      *)
(* garbage_list_ and none is freed or used again before the destructor.    *)
(***************************************************************************)

ESThreads == 1..ESNumThreads
ES_MaxAlloc == ESInitial + ESNumThreads * ESOps
ES_Nodes == 1..ES_MaxAlloc
ES_NoLocals == [node |-> Null, old_top |-> Null, new_top |-> Null, other_node |-> Null,
                value |-> 0, slot |-> 0, my_item |-> Null, your_item |-> Null,
                stamp |-> 0]

\* enum State : uint64_t { EMPTY, WAITING, BUSY }
EMPTY == 0
WAITING == 1
BUSY == 2

ESInit ==
  /\ es_value = [n \in ES_Nodes |-> IF n <= ESInitial THEN n ELSE 0]
  /\ es_next = [n \in ES_Nodes |-> IF n <= ESInitial THEN n - 1 ELSE Null]
  /\ es_top = ESInitial
  /\ es_nalloc = ESInitial
  /\ es_nval = ESInitial
  /\ es_garbage = <<>>
  /\ es_slot = [i \in 0..(ESCapacity - 1) |-> [ptr |-> Null, stamp |-> EMPTY]]
  /\ es_owner = [i \in 0..(ESCapacity - 1) |-> 0]
  /\ es_op = [t \in DOMAIN pc |-> "none"]
  /\ es_loc = [t \in DOMAIN pc |-> ES_NoLocals]
  /\ es_ret = [t \in DOMAIN pc |-> 0]
  /\ es_rets = <<>>
  /\ es_abs = [i \in 1..ESInitial |-> i]
  /\ es_pushed = [i \in 1..ESInitial |-> i]
  /\ es_popped = <<>>
  /\ es_taken = [t \in DOMAIN pc |-> 0]
  /\ ex_paired = [t \in DOMAIN pc |-> FALSE]
  /\ ex_given = [t \in DOMAIN pc |-> Null]
  /\ ex_result = [t \in DOMAIN pc |-> "none"]

\* What a pop returns instead of a value when it throws EmptyException.
ES_Empty == 0 - 1

\* The method of thread t returns r (push returns nothing: r is its value).
ES_return(t, r) ==
  /\ es_ret' = [es_ret EXCEPT ![t] = r]
  /\ es_rets' = IF es_op[t] = "pop" /\ r # ES_Empty THEN Append(es_rets, r) ELSE es_rets
  /\ EndIteration(t)
  /\ UNCHANGED <<es_op, es_loc>>

\* Thread t goes to label l with its locals set to loc.
ES_goto(t, l, loc) ==
  /\ pc' = [pc EXCEPT ![t] = l]
  /\ es_loc' = [es_loc EXCEPT ![t] = loc]
  /\ UNCHANGED <<iter, es_op, es_ret, es_rets>>

\* exchange returns item to visit, which returns it to push (line 142) or pop (line 164).
EX_return(t, item) ==
  /\ ES_goto(t, IF es_op[t] = "push" THEN "es_l144" ELSE "es_l166",
             [es_loc[t] EXCEPT !.other_node = item])
  /\ ex_result' = [ex_result EXCEPT ![t] = "item"]

\* exchange throws TimeoutException: push and pop catch it and start their loop again.
EX_throw(t) ==
  /\ ES_goto(t, IF es_op[t] = "push" THEN "es_l177" ELSE "es_l184", es_loc[t])
  /\ ex_result' = [ex_result EXCEPT ![t] = "timeout"]

\* compare_exchange_strong(exp, ...) on top_ that holds cur succeeds.
ES_cas_ok_bug(cur, exp) == TRUE
ES_cas_ok(cur, exp) == cur = exp

\* Line 144: the push has exchanged its node with a pop, which brought nullptr.
ES_eliminated_bug(other_node) == TRUE
ES_eliminated(other_node) == other_node = Null

\* Line 47: the publisher whose time is up withdraws its item, and throws,
\* when the compare_and_swap from WAITING to EMPTY succeeded.
EX_withdraw_bug(cas_ok) == TRUE
EX_withdraw(cas_ok) == cas_ok

EliminationBackoffStack_push(t) ==
  /\ lockKind = "EliminationBackoffStack"
  /\ \/ /\ pc[t] = "idle"           \* push(value): node = new Node(value)
        /\ es_op' = [es_op EXCEPT ![t] = "push"]
        /\ es_nval' = es_nval + 1
        /\ es_nalloc' = es_nalloc + 1
        /\ es_value' = [es_value EXCEPT ![es_nalloc + 1] = es_nval + 1]
        /\ es_loc' = [es_loc EXCEPT ![t] = [ES_NoLocals EXCEPT !.node = es_nalloc + 1,
                                                               !.value = es_nval + 1]]
        /\ pc' = [pc EXCEPT ![t] = "es_l177"]
        /\ UNCHANGED <<iter, es_ret, es_rets>>
        /\ UNCHANGED <<es_next, es_top, es_garbage, es_slot, es_owner, ex_paired,
                      ex_given, ex_result, es_abs, es_pushed, es_popped, es_taken>>
     \/ /\ pc[t] = "es_l177"        \* try_push: old_top = top_.load(); node->next_ = old_top
        /\ es_next' = [es_next EXCEPT ![es_loc[t].node] = es_top]
        /\ ES_goto(t, "es_l179", [es_loc[t] EXCEPT !.old_top = es_top])
        /\ UNCHANGED <<es_value, es_top, es_nalloc, es_nval, es_garbage, es_slot,
                      es_owner, ex_paired, ex_given, ex_result, es_abs, es_pushed,
                      es_popped, es_taken>>
     \/ /\ pc[t] = "es_l179"        \* top_.compare_exchange_strong(old_top, node): pushed
        /\ ES_cas_ok(es_top, es_loc[t].old_top)
        /\ es_top' = es_loc[t].node
        /\ es_abs' = Append(es_abs, es_loc[t].value)
        /\ es_pushed' = Append(es_pushed, es_loc[t].value)
        /\ ES_return(t, es_loc[t].value)
        /\ UNCHANGED <<es_value, es_next, es_nalloc, es_nval, es_garbage, es_slot,
                      es_owner, ex_paired, ex_given, ex_result, es_popped, es_taken>>
     \/ /\ pc[t] = "es_l179"        \* the CAS failed: elimination_array_.visit(node, ...)
        /\ ~ES_cas_ok(es_top, es_loc[t].old_top)
        /\ \E slot \in 0..(ESCapacity - 1) :
             ES_goto(t, "ex_l26", [es_loc[t] EXCEPT !.slot = slot, !.my_item = es_loc[t].node])
        /\ ex_paired' = [ex_paired EXCEPT ![t] = FALSE]
        /\ ex_given' = [ex_given EXCEPT ![t] = Null]
        /\ ex_result' = [ex_result EXCEPT ![t] = "none"]
        /\ UNCHANGED <<es_value, es_next, es_top, es_nalloc, es_nval, es_garbage, es_slot,
                      es_owner, es_abs, es_pushed, es_popped, es_taken>>
     \/ /\ pc[t] = "es_l144"        \* if (other_node == nullptr) return; else try again
        /\ IF ES_eliminated(es_loc[t].other_node)
             THEN ES_return(t, es_loc[t].value)
             ELSE ES_goto(t, "es_l177", es_loc[t])
        /\ UNCHANGED <<es_value, es_next, es_top, es_nalloc, es_nval, es_garbage, es_slot,
                      es_owner, ex_paired, ex_given, ex_result, es_abs, es_pushed,
                      es_popped, es_taken>>
  /\ UNCHANGED <<lockKind, numIter, counter, prev, fifo_queue, others_DS, blVars, qVars,
                 sqVars, aspVars, hpVars>>

EliminationBackoffStack_pop(t) ==
  /\ lockKind = "EliminationBackoffStack"
  /\ \/ /\ pc[t] = "idle"           \* pop()
        /\ es_op' = [es_op EXCEPT ![t] = "pop"]
        /\ es_loc' = [es_loc EXCEPT ![t] = ES_NoLocals]
        /\ pc' = [pc EXCEPT ![t] = "es_l184"]
        /\ UNCHANGED <<iter, es_ret, es_rets>>
        /\ UNCHANGED <<es_value, es_next, es_top, es_nalloc, es_nval, es_garbage, es_slot,
                      es_owner, ex_paired, ex_given, ex_result, es_abs, es_pushed,
                      es_popped, es_taken>>
     \/ /\ pc[t] = "es_l184"        \* try_pop: old_top = top_.load(); if null throw EmptyException
        /\ IF es_top = Null
             THEN /\ es_taken' = [es_taken EXCEPT ![t] = IF es_abs = <<>> THEN ES_Empty ELSE 0]
                  /\ ES_return(t, ES_Empty)
             ELSE /\ ES_goto(t, "es_l188", [es_loc[t] EXCEPT !.old_top = es_top])
                  /\ UNCHANGED es_taken
        /\ UNCHANGED <<es_value, es_next, es_top, es_nalloc, es_nval, es_garbage, es_slot,
                      es_owner, ex_paired, ex_given, ex_result, es_abs, es_pushed,
                      es_popped>>
     \/ /\ pc[t] = "es_l188"        \* new_top = old_top->next_
        /\ ES_goto(t, "es_l189", [es_loc[t] EXCEPT !.new_top = es_next[es_loc[t].old_top]])
        /\ UNCHANGED <<es_value, es_next, es_top, es_nalloc, es_nval, es_garbage, es_slot,
                      es_owner, ex_paired, ex_given, ex_result, es_abs, es_pushed,
                      es_popped, es_taken>>
     \/ /\ pc[t] = "es_l189"        \* top_.compare_exchange_strong(old_top, new_top): popped
        /\ ES_cas_ok(es_top, es_loc[t].old_top)
        /\ es_top' = es_loc[t].new_top
        /\ es_abs' = IF es_abs = <<>> THEN <<>> ELSE SubSeq(es_abs, 1, Len(es_abs) - 1)
        /\ es_popped' = Append(es_popped, IF es_abs = <<>> THEN 0 ELSE es_abs[Len(es_abs)])
        /\ es_taken' = [es_taken EXCEPT ![t] = IF es_abs = <<>> THEN 0 ELSE es_abs[Len(es_abs)]]
        /\ ES_goto(t, "es_l155", [es_loc[t] EXCEPT !.other_node = es_loc[t].old_top])
        /\ UNCHANGED <<es_value, es_next, es_nalloc, es_nval, es_garbage, es_slot,
                      es_owner, ex_paired, ex_given, ex_result, es_pushed>>
     \/ /\ pc[t] = "es_l189"        \* the CAS failed: elimination_array_.visit(nullptr, ...)
        /\ ~ES_cas_ok(es_top, es_loc[t].old_top)
        /\ \E slot \in 0..(ESCapacity - 1) :
             ES_goto(t, "ex_l26", [es_loc[t] EXCEPT !.slot = slot, !.my_item = Null])
        /\ ex_paired' = [ex_paired EXCEPT ![t] = FALSE]
        /\ ex_given' = [ex_given EXCEPT ![t] = Null]
        /\ ex_result' = [ex_result EXCEPT ![t] = "none"]
        /\ UNCHANGED <<es_value, es_next, es_top, es_nalloc, es_nval, es_garbage, es_slot,
                      es_owner, es_abs, es_pushed, es_popped, es_taken>>
     \/ /\ pc[t] = "es_l166"        \* if (other_node != nullptr) ...; else try again
        /\ ES_goto(t, IF es_loc[t].other_node # Null THEN "es_l155" ELSE "es_l184", es_loc[t])
        /\ UNCHANGED <<es_value, es_next, es_top, es_nalloc, es_nval, es_garbage, es_slot,
                      es_owner, ex_paired, ex_given, ex_result, es_abs, es_pushed,
                      es_popped, es_taken>>
     \/ /\ pc[t] = "es_l155"        \* value = std::move(node->value_), lines 155 and 167
        /\ ES_goto(t, "es_l156", [es_loc[t] EXCEPT !.value = es_value[es_loc[t].other_node]])
        /\ UNCHANGED <<es_value, es_next, es_top, es_nalloc, es_nval, es_garbage, es_slot,
                      es_owner, ex_paired, ex_given, ex_result, es_abs, es_pushed,
                      es_popped, es_taken>>
     \/ /\ pc[t] = "es_l156"        \* clean_up(node); return value, lines 156 and 168
        /\ es_garbage' = <<es_loc[t].other_node>> \o es_garbage
        /\ ES_return(t, es_loc[t].value)
        /\ UNCHANGED <<es_value, es_next, es_top, es_nalloc, es_nval, es_slot, es_owner,
                      ex_paired, ex_given, ex_result, es_abs, es_pushed, es_popped,
                      es_taken>>
  /\ UNCHANGED <<lockKind, numIter, counter, prev, fifo_queue, others_DS, blVars, qVars,
                 sqVars, aspVars, hpVars>>

LockFreeExchanger_exchange(t) ==
  /\ lockKind = "EliminationBackoffStack"
  /\ \/ /\ pc[t] = "ex_l26"         \* if (get_current_time() > time_bound) throw TimeoutException
        /\ \/ EX_throw(t)
           \/ ES_goto(t, "ex_l30", es_loc[t]) /\ UNCHANGED ex_result
        /\ UNCHANGED <<es_value, es_next, es_top, es_nalloc, es_nval, es_garbage, es_slot,
                      es_owner, ex_paired, ex_given, es_abs, es_pushed, es_popped,
                      es_taken>>
     \/ /\ pc[t] = "ex_l30"         \* [your_item, stamp] = slot_.get(); switch (stamp)
        /\ LET slot == es_slot[es_loc[t].slot] IN
             ES_goto(t, CASE slot.stamp = EMPTY -> "ex_l33"
                          [] slot.stamp = WAITING -> "ex_l59"
                          [] OTHER -> "ex_l26",
                     [es_loc[t] EXCEPT !.your_item = slot.ptr, !.stamp = slot.stamp])
        /\ UNCHANGED <<es_value, es_next, es_top, es_nalloc, es_nval, es_garbage, es_slot,
                      es_owner, ex_paired, ex_given, ex_result, es_abs, es_pushed,
                      es_popped, es_taken>>
     \/ /\ pc[t] = "ex_l33"         \* slot_.compare_and_swap(your_item, my_item, EMPTY, WAITING)
        /\ LET slot == es_slot[es_loc[t].slot] IN
             IF ASP_cas_ok(slot.ptr, slot.stamp, es_loc[t].your_item, EMPTY)
               THEN /\ es_slot' = [es_slot EXCEPT ![es_loc[t].slot] =
                                     [ptr |-> es_loc[t].my_item, stamp |-> WAITING]]
                    /\ es_owner' = [es_owner EXCEPT ![es_loc[t].slot] = t]
                    /\ ES_goto(t, "ex_l36", es_loc[t])
               ELSE /\ ES_goto(t, "ex_l26", es_loc[t])
                    /\ UNCHANGED <<es_slot, es_owner>>
        /\ UNCHANGED <<es_value, es_next, es_top, es_nalloc, es_nval, es_garbage,
                      ex_paired, ex_given, ex_result, es_abs, es_pushed, es_popped,
                      es_taken>>
     \/ /\ pc[t] = "ex_l36"         \* while (get_current_time() < time_bound)
        /\ \/ ES_goto(t, "ex_l37", es_loc[t])
           \/ ES_goto(t, "ex_l47", es_loc[t])
        /\ UNCHANGED <<es_value, es_next, es_top, es_nalloc, es_nval, es_garbage, es_slot,
                      es_owner, ex_paired, ex_given, ex_result, es_abs, es_pushed,
                      es_popped, es_taken>>
     \/ /\ pc[t] = "ex_l37"         \* [your_item, stamp] = slot_.get(); if (stamp == BUSY)
        /\ LET slot == es_slot[es_loc[t].slot] IN
             ES_goto(t, IF slot.stamp = BUSY THEN "ex_l43" ELSE "ex_l36",
                     [es_loc[t] EXCEPT !.your_item = slot.ptr, !.stamp = slot.stamp])
        /\ UNCHANGED <<es_value, es_next, es_top, es_nalloc, es_nval, es_garbage, es_slot,
                      es_owner, ex_paired, ex_given, ex_result, es_abs, es_pushed,
                      es_popped, es_taken>>
     \/ /\ pc[t] = "ex_l43"         \* slot_.set(nullptr, EMPTY); return your_item
        /\ es_slot' = [es_slot EXCEPT ![es_loc[t].slot] = [ptr |-> Null, stamp |-> EMPTY]]
        /\ EX_return(t, es_loc[t].your_item)
        /\ UNCHANGED <<es_value, es_next, es_top, es_nalloc, es_nval, es_garbage,
                      es_owner, ex_paired, ex_given, es_abs, es_pushed, es_popped,
                      es_taken>>
     \/ /\ pc[t] = "ex_l47"         \* if (slot_.compare_and_swap(my_item, nullptr, WAITING, EMPTY)) throw
        /\ LET slot == es_slot[es_loc[t].slot] IN
             IF EX_withdraw(ASP_cas_ok(slot.ptr, slot.stamp, es_loc[t].my_item, WAITING))
               THEN /\ es_slot' = [es_slot EXCEPT ![es_loc[t].slot] = [ptr |-> Null, stamp |-> EMPTY]]
                    /\ EX_throw(t)
               ELSE /\ ES_goto(t, "ex_l52", es_loc[t])
                    /\ UNCHANGED <<es_slot, ex_result>>
        /\ UNCHANGED <<es_value, es_next, es_top, es_nalloc, es_nval, es_garbage,
                      es_owner, ex_paired, ex_given, es_abs, es_pushed, es_popped,
                      es_taken>>
     \/ /\ pc[t] = "ex_l52"         \* your_item = slot_.get_ptr()
        /\ ES_goto(t, "ex_l53", [es_loc[t] EXCEPT !.your_item = es_slot[es_loc[t].slot].ptr])
        /\ UNCHANGED <<es_value, es_next, es_top, es_nalloc, es_nval, es_garbage, es_slot,
                      es_owner, ex_paired, ex_given, ex_result, es_abs, es_pushed,
                      es_popped, es_taken>>
     \/ /\ pc[t] = "ex_l53"         \* slot_.set(nullptr, EMPTY); return your_item
        /\ es_slot' = [es_slot EXCEPT ![es_loc[t].slot] = [ptr |-> Null, stamp |-> EMPTY]]
        /\ EX_return(t, es_loc[t].your_item)
        /\ UNCHANGED <<es_value, es_next, es_top, es_nalloc, es_nval, es_garbage,
                      es_owner, ex_paired, ex_given, es_abs, es_pushed, es_popped,
                      es_taken>>
     \/ /\ pc[t] = "ex_l59"         \* if (slot_.compare_and_swap(your_item, my_item, WAITING, BUSY)) return your_item
        /\ LET slot == es_slot[es_loc[t].slot]
               o == es_owner[es_loc[t].slot]
               mine == es_loc[t].my_item
               yours == es_loc[t].your_item
               v == IF mine # Null THEN es_value[mine] ELSE es_value[yours]
               met == (mine = Null) # (yours = Null)
           IN
             IF ASP_cas_ok(slot.ptr, slot.stamp, yours, WAITING)
               THEN /\ es_slot' = [es_slot EXCEPT ![es_loc[t].slot] = [ptr |-> mine, stamp |-> BUSY]]
                    /\ ex_paired' = [ex_paired EXCEPT ![o] = TRUE]
                    /\ ex_given' = [ex_given EXCEPT ![o] = mine]
                    /\ es_pushed' = IF met THEN Append(es_pushed, v) ELSE es_pushed
                    /\ es_popped' = IF met THEN Append(es_popped, v) ELSE es_popped
                    /\ es_taken' = IF ~met THEN es_taken
                                   ELSE [es_taken EXCEPT ![IF mine = Null THEN t ELSE o] = v]
                    /\ EX_return(t, yours)
               ELSE /\ ES_goto(t, "ex_l26", es_loc[t])
                    /\ UNCHANGED <<es_slot, ex_paired, ex_given, ex_result, es_pushed, es_popped,
                                   es_taken>>
        /\ UNCHANGED <<es_value, es_next, es_top, es_nalloc, es_nval, es_garbage,
                      es_owner, es_abs>>
  /\ UNCHANGED <<lockKind, numIter, counter, prev, fifo_queue, others_DS, blVars, qVars,
                 sqVars, aspVars, hpVars>>

(***************************************************************************)
(* AtomicStampedPtr (util/atomic_stamped_ptr.h): a pointer and a stamp in  *)
(* one std::atomic.  Stamps are unsigned: they wrap at 2^ASPStampBits as   *)
(* those of the code wrap at 2^64.  ASP_cas_ok, defined with the           *)
(* LockFreeQueueRecycle, is the comparison compare_exchange_strong makes.  *)
(***************************************************************************)

ASPThreads == 1..ASPNumThreads
ASP_Ptrs == 1..ASPNumPtrs
ASP_Stamps == 0..(2^ASPStampBits - 1)
ASP_NoCall == [thread |-> 0, expected_ptr |-> Null, expected_stamp |-> 0,
               desired_ptr |-> Null, desired_stamp |-> 0, old_ptr |-> Null,
               old_stamp |-> 0, new_ptr |-> Null, new_stamp |-> 0, ok |-> FALSE,
               observed |-> FALSE, updates |-> 0]

\* AtomicStampedPtr(ptr, stamp): the test starts from a pointer A and any stamp.
ASPInit ==
  /\ asp_ptr = 1
  /\ asp_stamp \in IF lockKind = "AtomicStampedPtr" THEN ASP_Stamps ELSE {0}
  /\ asp_obs = [t \in DOMAIN pc |-> [ptr |-> Null, stamp |-> 0]]
  /\ asp_updates = [t \in DOMAIN pc |-> 0]
  /\ asp_ops = 0
  /\ asp_last = ASP_NoCall

\* [ptr, stamp] = get()
AtomicStampedPtr_get(t) ==
  /\ lockKind = "AtomicStampedPtr"
  /\ asp_obs' = [asp_obs EXCEPT ![t] = [ptr |-> asp_ptr, stamp |-> asp_stamp]]
  /\ asp_updates' = [asp_updates EXCEPT ![t] = 0]
  /\ UNCHANGED <<asp_ptr, asp_stamp, asp_ops, asp_last>>
  /\ UNCHANGED <<harnessVars, others_DS, blVars, qVars, sqVars, esVars, hpVars>>

\* compare_and_swap(expected_ptr, desired_ptr, expected_stamp, desired_stamp)
AtomicStampedPtr_compare_and_swap(t, expected_ptr, desired_ptr, expected_stamp, desired_stamp) ==
  /\ lockKind = "AtomicStampedPtr"
  /\ asp_ops < ASPMaxOps
  /\ LET ok == ASP_cas_ok(asp_ptr, asp_stamp, expected_ptr, expected_stamp) IN
       /\ asp_ptr' = IF ok THEN desired_ptr ELSE asp_ptr
       /\ asp_stamp' = IF ok THEN desired_stamp ELSE asp_stamp
       /\ asp_updates' = [u \in DOMAIN asp_updates |->
                            IF ok THEN asp_updates[u] + 1 ELSE asp_updates[u]]
       /\ asp_last' = [thread |-> t, expected_ptr |-> expected_ptr,
                       expected_stamp |-> expected_stamp, desired_ptr |-> desired_ptr,
                       desired_stamp |-> desired_stamp, old_ptr |-> asp_ptr,
                       old_stamp |-> asp_stamp, new_ptr |-> asp_ptr',
                       new_stamp |-> asp_stamp', ok |-> ok,
                       observed |-> (asp_obs[t] = [ptr |-> expected_ptr,
                                                   stamp |-> expected_stamp]),
                       updates |-> asp_updates[t]]
  /\ asp_ops' = asp_ops + 1
  /\ UNCHANGED asp_obs
  /\ UNCHANGED <<harnessVars, others_DS, blVars, qVars, sqVars, esVars, hpVars>>

(***************************************************************************)
(* HazardPtr (lamp/memory/hazard_ptr.h).  The context of thread t is named *)
(* t; hp_head is the list of contexts as is_unreserved walks it from       *)
(* head_.  A thread calls register_thread once and then try_reserve,       *)
(* unreserve, sched_for_reclaim and op_end; a node is handed to            *)
(* sched_for_reclaim once, by the thread that removed it.  Every load or   *)
(* store of a reservation that another thread can see is one step.  A      *)
(* label hp_lN is line N of the header.                                    *)
(***************************************************************************)

HPThreads == 1..HPNumThreads
HP_Slots == 1..HPNumSlots
HP_Nodes == 1..HPNumNodes
HP_NoLocals == [i |-> 0, it |-> 0, curr |-> <<>>, ptr |-> Null]

HPInit ==
  /\ hp_head = <<>>
  /\ hp_reservations = [t \in DOMAIN pc |-> [i \in HP_Slots |-> Null]]
  /\ hp_pending_reclaims = [t \in DOMAIN pc |-> <<>>]
  /\ hp_loc = [t \in DOMAIN pc |-> HP_NoLocals]
  /\ hp_deleted = [n \in HP_Nodes |-> 0]
  /\ hp_held = [t \in DOMAIN pc |-> {}]

\* Thread t has called register_thread.
HP_Registered(t) == \E k \in DOMAIN hp_head : hp_head[k] = t

\* Node n was handed to sched_for_reclaim.
HP_Scheduled(n) ==
  \/ hp_deleted[n] > 0
  \/ \E t \in DOMAIN pc :
       \E k \in DOMAIN hp_pending_reclaims[t] : hp_pending_reclaims[t][k] = n

\* hp_held once slot i of thread t has been stored to.
HP_stored(t, i) == [u \in DOMAIN pc |-> hp_held[u] \ {<<t, i>>}]

\* The slots that hold node n.
HP_Holding(n) ==
  {s \in (DOMAIN pc) \X HP_Slots : hp_reservations[s[1]][s[2]] = n}

\* A call of thread t returns.
HP_return(t) ==
  /\ hp_loc' = [hp_loc EXCEPT ![t] = HP_NoLocals]
  /\ EndIteration(t)

\* self_ = new ThreadContext(num, this): the context is pushed in front of head_.
HazardPtr_register_thread(t) ==
  /\ lockKind = "HazardPtr"
  /\ pc[t] = "idle"
  /\ ~HP_Registered(t)
  /\ hp_head' = <<t>> \o hp_head
  /\ UNCHANGED <<hp_reservations, hp_pending_reclaims, hp_loc, hp_deleted, hp_held>>
  /\ UNCHANGED <<harnessVars, others_DS, blVars, qVars, sqVars, esVars, aspVars>>

\* The first free slot takes ptr; with no free slot the call throws.
HazardPtr_try_reserve(t, ptr) ==
  /\ lockKind = "HazardPtr"
  /\ pc[t] = "idle"
  /\ HP_Registered(t)
  /\ LET free == {i \in HP_Slots : hp_reservations[t][i] = Null} IN
       IF free = {}
         THEN UNCHANGED <<hp_reservations, hp_held>>
         ELSE LET i == CHOOSE j \in free : \A k \in free : j <= k IN
                /\ hp_reservations' = [hp_reservations EXCEPT ![t][i] = ptr]
                /\ hp_held' = HP_stored(t, i)
  /\ HP_return(t)
  /\ UNCHANGED <<hp_head, hp_pending_reclaims, hp_deleted>>
  /\ UNCHANGED <<lockKind, numIter, counter, prev, fifo_queue, others_DS, blVars, qVars,
                 sqVars, esVars, aspVars>>

HazardPtr_unreserve(t, ptr) ==
  /\ lockKind = "HazardPtr"
  /\ \/ /\ pc[t] = "idle"          \* the call
        /\ HP_Registered(t)
        /\ hp_loc' = [hp_loc EXCEPT ![t] = [HP_NoLocals EXCEPT !.i = 1, !.ptr = ptr]]
        /\ pc' = [pc EXCEPT ![t] = "hp_l100"]
        /\ UNCHANGED <<iter, hp_reservations, hp_held>>
     \/ /\ pc[t] = "hp_l100"       \* if (reservation.load() == ptr) reservation.store(nullptr)
        /\ ptr = hp_loc[t].ptr
        /\ IF hp_reservations[t][hp_loc[t].i] = ptr
             THEN /\ hp_reservations' = [hp_reservations EXCEPT ![t][hp_loc[t].i] = Null]
                  /\ hp_held' = HP_stored(t, hp_loc[t].i)
             ELSE UNCHANGED <<hp_reservations, hp_held>>
        /\ IF hp_loc[t].i = HPNumSlots
             THEN HP_return(t)
             ELSE /\ hp_loc' = [hp_loc EXCEPT ![t].i = @ + 1]
                  /\ UNCHANGED <<pc, iter>>
  /\ UNCHANGED <<hp_head, hp_pending_reclaims, hp_deleted>>
  /\ UNCHANGED <<lockKind, numIter, counter, prev, fifo_queue, others_DS, blVars, qVars,
                 sqVars, esVars, aspVars>>

\* self_->pending_reclaims_.push_back(new data_to_reclaim(ptr))
HazardPtr_sched_for_reclaim(t, ptr) ==
  /\ lockKind = "HazardPtr"
  /\ pc[t] = "idle"
  /\ HP_Registered(t)
  /\ ~HP_Scheduled(ptr)
  /\ hp_pending_reclaims' = [hp_pending_reclaims EXCEPT ![t] = Append(@, ptr)]
  /\ HP_return(t)
  /\ UNCHANGED <<hp_head, hp_reservations, hp_deleted, hp_held>>
  /\ UNCHANGED <<lockKind, numIter, counter, prev, fifo_queue, others_DS, blVars, qVars,
                 sqVars, esVars, aspVars>>

\* curr = head_.load() of is_unreserved: the contexts the scan visits.
HP_contexts_bug(t) == <<t>>
HP_contexts(t) == hp_head

\* pending_reclaims_ after erase(it).
HP_erase(list, it) == [k \in 1..(Len(list) - 1) |-> IF k < it THEN list[k] ELSE list[k + 1]]

HazardPtr_op_end(t) ==
  /\ lockKind = "HazardPtr"
  /\ \/ /\ pc[t] = "idle"          \* the call
        /\ HP_Registered(t)
        /\ hp_loc' = [hp_loc EXCEPT ![t] = [HP_NoLocals EXCEPT !.i = 1]]
        /\ pc' = [pc EXCEPT ![t] = "hp_l111"]
        /\ UNCHANGED <<iter, hp_reservations, hp_pending_reclaims, hp_deleted, hp_held>>
     \/ /\ pc[t] = "hp_l111"       \* reservation.store(nullptr)
        /\ hp_reservations' = [hp_reservations EXCEPT ![t][hp_loc[t].i] = Null]
        /\ hp_held' = HP_stored(t, hp_loc[t].i)
        /\ IF hp_loc[t].i = HPNumSlots
             THEN /\ hp_loc' = [hp_loc EXCEPT ![t] = [HP_NoLocals EXCEPT !.it = 1]]
                  /\ pc' = [pc EXCEPT ![t] = "hp_l115"]
             ELSE /\ hp_loc' = [hp_loc EXCEPT ![t].i = @ + 1]
                  /\ UNCHANGED pc
        /\ UNCHANGED <<iter, hp_pending_reclaims, hp_deleted>>
     \/ /\ pc[t] = "hp_l115"       \* while (it != end()): is_unreserved(data_): curr = head_.load()
        /\ IF hp_loc[t].it > Len(hp_pending_reclaims[t])
             THEN /\ HP_return(t)
                  /\ UNCHANGED hp_held
             ELSE LET ptr == hp_pending_reclaims[t][hp_loc[t].it] IN
                    /\ hp_loc' = [hp_loc EXCEPT ![t].ptr = ptr, ![t].curr = HP_contexts(t),
                                                ![t].i = 1]
                    /\ hp_held' = [hp_held EXCEPT ![t] = HP_Holding(ptr)]
                    /\ pc' = [pc EXCEPT ![t] = "hp_l137"]
                    /\ UNCHANGED iter
        /\ UNCHANGED <<hp_reservations, hp_pending_reclaims, hp_deleted>>
     \/ /\ pc[t] = "hp_l137"       \* if (reservation.load() == ptr) return false
        /\ IF hp_reservations[Head(hp_loc[t].curr)][hp_loc[t].i] = hp_loc[t].ptr
             THEN /\ hp_loc' = [hp_loc EXCEPT ![t].it = @ + 1, ![t].curr = <<>>,  \* ++it
                                              ![t].i = 0, ![t].ptr = Null]
                  /\ pc' = [pc EXCEPT ![t] = "hp_l115"]
             ELSE IF hp_loc[t].i < HPNumSlots
                    THEN /\ hp_loc' = [hp_loc EXCEPT ![t].i = @ + 1]
                         /\ UNCHANGED pc
                    ELSE IF Len(hp_loc[t].curr) > 1   \* curr = curr->next_
                           THEN /\ hp_loc' = [hp_loc EXCEPT ![t].curr = Tail(@), ![t].i = 1]
                                /\ UNCHANGED pc
                           ELSE /\ hp_loc' = [hp_loc EXCEPT ![t].curr = <<>>, ![t].i = 0]
                                /\ pc' = [pc EXCEPT ![t] = "hp_l118"]   \* return true
        /\ UNCHANGED <<iter, hp_reservations, hp_pending_reclaims, hp_deleted, hp_held>>
     \/ /\ pc[t] = "hp_l118"       \* it = erase(it); delete reclaim_obj
        /\ hp_pending_reclaims' =
             [hp_pending_reclaims EXCEPT ![t] = HP_erase(@, hp_loc[t].it)]
        /\ hp_deleted' = [hp_deleted EXCEPT ![hp_loc[t].ptr] = @ + 1]
        /\ hp_loc' = [hp_loc EXCEPT ![t].ptr = Null]
        /\ pc' = [pc EXCEPT ![t] = "hp_l115"]
        /\ UNCHANGED <<iter, hp_reservations, hp_held>>
  /\ UNCHANGED hp_head
  /\ UNCHANGED <<lockKind, numIter, counter, prev, fifo_queue, others_DS, blVars, qVars,
                 sqVars, esVars, aspVars>>

(***************************************************************************)
(* Specifications: one per lock under test, each with the test loop.       *)
(***************************************************************************)

LocksInit ==
  /\ MCSInit /\ TicketInit /\ CLHInit /\ PetersonInit /\ FilterInit /\ ALockInit
  /\ TOInit /\ CompositeInit /\ RWInit /\ REInit /\ SyInit /\ LSInit
  /\ BLInit /\ QInit /\ ESInit /\ ASPInit /\ HPInit

InitMCS == HarnessInit("MCS", Threads, NumIterations) /\ LocksInit

NextMCS ==
  \E t \in Threads :
    \/ MCSLock_lock(t)
    \/ CS_read(t)
    \/ CS_incr(t)
    \/ MCSLock_unlock(t)

SpecMCS == InitMCS /\ [][NextMCS]_vars

\* Fair scheduling: a thread that can take a step eventually takes one.
SpecMCSFair ==
  /\ InitMCS /\ [][NextMCS]_vars
  /\ \A t \in Threads :
       WF_vars(MCSLock_lock(t) \/ CS_read(t) \/ CS_incr(t) \/ MCSLock_unlock(t))

InitCLH == HarnessInit("CLH", Threads, NumIterations) /\ LocksInit

NextCLH ==
  \E t \in Threads :
    \/ CLHLock_lock(t)
    \/ CS_read(t)
    \/ CS_incr(t)
    \/ CLHLock_unlock(t)

SpecCLH == InitCLH /\ [][NextCLH]_vars

InitPeterson == HarnessInit("Peterson", PetersonIds, NumIterations) /\ LocksInit

NextPeterson ==
  \E id \in PetersonIds :
    \/ PetersonLock_lock(id)
    \/ CS_read(id)
    \/ CS_incr(id)
    \/ PetersonLock_unlock(id)

SpecPeterson == InitPeterson /\ [][NextPeterson]_vars

InitFilter == HarnessInit("Filter", FilterIds, NumIterations) /\ LocksInit

FilterThread(id) ==
  \/ FilterLock_lock(id)
  \/ CS_read(id)
  \/ CS_incr(id)
  \/ FilterLock_unlock(id)

NextFilter == \E id \in FilterIds : FilterThread(id)

SpecFilter == InitFilter /\ [][NextFilter]_vars

\* Fair scheduling: a thread that can take a step eventually takes one.
InitFilterFair == HarnessInit("Filter", FilterIds, FairIterations) /\ LocksInit

SpecFilterFair ==
  /\ InitFilterFair /\ [][NextFilter]_vars
  /\ \A id \in FilterIds : WF_vars(FilterThread(id))

InitALock == HarnessInit("ALock", Threads, NumIterations) /\ LocksInit

NextALock ==
  \E t \in Threads :
    \/ ALock_lock(t)
    \/ CS_read(t)
    \/ CS_incr(t)
    \/ ALock_unlock(t)

SpecALock == InitALock /\ [][NextALock]_vars

InitTOLock == HarnessInit("TOLock", Threads, NumIterations) /\ LocksInit

NextTOLock ==
  \E t \in Threads :
    \/ TOLock_try_lock(t)
    \/ CS_read(t)
    \/ CS_incr(t)
    \/ TOLock_unlock(t)

SpecTOLock == InitTOLock /\ [][NextTOLock]_vars

\* The step of try_lock in which the loop condition finds the timeout expired.
TO_timeout(t) == pc[t] = "to_l42" /\ pc'[t] = "to_l61"

\* Fair scheduling with timeouts that are long but not infinite: a thread
\* that can take a step other than running out of time eventually takes one.
SpecTOLockFair ==
  /\ InitTOLock /\ [][NextTOLock]_vars
  /\ \A t \in Threads :
       WF_vars((TOLock_try_lock(t) /\ ~TO_timeout(t))
               \/ CS_read(t) \/ CS_incr(t) \/ TOLock_unlock(t))

InitComposite == HarnessInit("Composite", CompositeThreads, CLIterations) /\ LocksInit

NextComposite ==
  \E t \in CompositeThreads :
    \/ CompositeLock_acquire_qnode(t)
    \/ CompositeLock_splice_qnode(t)
    \/ CompositeLock_wait_for_predecessor(t)
    \/ CS_read(t)
    \/ CS_incr(t)
    \/ CompositeLock_unlock(t)

SpecComposite == InitComposite /\ [][NextComposite]_vars

\* The three queue locks of the FIFO claim, one of them per behaviour.
InitFIFO ==
  /\ \E kind \in {"Ticket", "MCS", "CLH"} : HarnessInit(kind, Threads, NumIterations)
  /\ LocksInit

NextFIFO ==
  \E t \in Threads :
    \/ TicketLock_lock(t)
    \/ MCSLock_lock(t)
    \/ CLHLock_lock(t)
    \/ CS_read(t)
    \/ CS_incr(t)
    \/ TicketLock_unlock(t)
    \/ MCSLock_unlock(t)
    \/ CLHLock_unlock(t)

SpecFIFO == InitFIFO /\ [][NextFIFO]_vars

\* The two read/write locks, one of them per behaviour; in every iteration a
\* thread is a reader or a writer.
InitRW ==
  /\ \E kind \in {"SimpleRW", "FIFORW"} : HarnessInit(kind, RWThreads, RWIterations)
  /\ LocksInit

NextRW ==
  \E t \in RWThreads :
    \/ ReadWriteLock_read_lock(t)
    \/ ReadWriteLock_write_lock(t)
    \/ ConditionVariable_wait(t)
    \/ ConditionVariable_notify_all(t)
    \/ CS_read(t)
    \/ CS_incr(t)
    \/ ReadWriteLock_read_unlock(t)
    \/ ReadWriteLock_write_unlock(t)

SpecRW == InitRW /\ [][NextRW]_vars

\* The ReentrantLock: every thread makes RECalls calls; a thread that can
\* take a step eventually takes one.
InitRE == HarnessInit("Reentrant", Threads, RECalls) /\ LocksInit

NextRE ==
  \E t \in Threads :
    \/ ReentrantLock_lock(t)
    \/ ReentrantLock_unlock(t)
    \/ ConditionVariable_wait(t)
    \/ ConditionVariable_notify_all(t)

SpecRE ==
  /\ InitRE /\ [][NextRE]_vars
  /\ \A t \in Threads :
       WF_vars(\/ ReentrantLock_lock(t)
               \/ ReentrantLock_unlock(t)
               \/ ConditionVariable_wait(t)
               \/ ConditionVariable_notify_all(t))

InitCVT == HarnessInit("CVTest", Threads, CVIterations) /\ LocksInit

NextCVT ==
  \E t \in Threads :
    \/ CVTest_producer(t)
    \/ CVTest_consumer(t)
    \/ ConditionVariable_wait(t)
    \/ ConditionVariable_notify_all(t)

\* Every thread that can take a step eventually takes one.
SpecCVT ==
  /\ InitCVT /\ [][NextCVT]_vars
  /\ \A t \in Threads :
       WF_vars(\/ CVTest_producer(t)
               \/ CVTest_consumer(t)
               \/ ConditionVariable_wait(t)
               \/ ConditionVariable_notify_all(t))


InitCVU == HarnessInit("CVTimed", Threads, CVIterations) /\ LocksInit

NextCVU ==
  \E t \in Threads :
    \/ CVTimed_thread(t)
    \/ ConditionVariable_wait_until(t)
    \/ ConditionVariable_notify_one(t)
    \/ ConditionVariable_notify_all(t)

SpecCVU == InitCVU /\ [][NextCVU]_vars

InitCVOne == HarnessInit("CVOne", CVOThreads, CVOIterations) /\ LocksInit

NextCVOne ==
  \E t \in CVOThreads :
    \/ CVOne_thread(t)
    \/ ConditionVariable_wait(t)
    \/ ConditionVariable_notify_one(t)

SpecCVOne == InitCVOne /\ [][NextCVOne]_vars

InitSem == HarnessInit("Semaphore", Threads, SemIterations) /\ LocksInit

NextSem ==
  \E t \in Threads :
    \/ Semaphore_acquire(t)
    \/ Semaphore_release(t)
    \/ Semaphore_try_acquire(t)
    \/ Semaphore_try_acquire_for(t)
    \/ ConditionVariable_wait(t)
    \/ ConditionVariable_wait_until(t)
    \/ ConditionVariable_notify_all(t)

SpecSem == InitSem /\ [][NextSem]_vars

InitLF == HarnessInit("LockFreeList", ListThreads, LOps) /\ LocksInit

NextLF ==
  \E t \in ListThreads :
    \/ LockFreeList_add(t)
    \/ LockFreeList_remove(t)
    \/ LockFreeList_contains(t)
    \/ LockFreeList_find(t)

SpecLF == InitLF /\ [][NextLF]_vars

InitLZ == HarnessInit("LazyList", ListThreads, LOps) /\ LocksInit

NextLZ ==
  \E t \in ListThreads :
    \/ LazyList_add(t)
    \/ LazyList_remove(t)
    \/ LazyList_contains(t)
    \/ LazyList_search(t)

SpecLZ == InitLZ /\ [][NextLZ]_vars

InitOP == HarnessInit("OptimisticList", ListThreads, LOps) /\ LocksInit

NextOP ==
  \E t \in ListThreads :
    \/ OptimisticList_add(t)
    \/ OptimisticList_remove(t)
    \/ OptimisticList_contains(t)
    \/ OptimisticList_search(t)

SpecOP == InitOP /\ [][NextOP]_vars

InitFN == HarnessInit("FineList", ListThreads, LOps) /\ LocksInit

NextFN ==
  \E t \in ListThreads :
    \/ FineList_add(t)
    \/ FineList_remove(t)
    \/ FineList_contains(t)
    \/ FineList_search(t)

\* Every thread that can take a step eventually takes one.
SpecFN ==
  /\ InitFN /\ [][NextFN]_vars
  /\ \A t \in ListThreads :
       WF_vars(\/ FineList_add(t)
               \/ FineList_remove(t)
               \/ FineList_contains(t)
               \/ FineList_search(t))

InitBoundary == HarnessInit("Boundary", {1}, 1) /\ LocksInit

NextBoundary ==
  \E h \in 0..BL_Max :
    \/ ListSet_contains(h)
    \/ ListSet_add(h)
    \/ ListSet_remove(h)

SpecBoundary == InitBoundary /\ [][NextBoundary]_vars

InitLFQ == HarnessInit("LockFreeQueue", QThreads, QOps) /\ LocksInit

NextLFQ ==
  \E t \in QThreads :
    \/ LockFreeQueue_enqueue(t)
    \/ LockFreeQueue_dequeue(t)

SpecLFQ == InitLFQ /\ [][NextLFQ]_vars

InitLQR == HarnessInit("LockFreeQueueRecycle", QThreads, QOps) /\ LocksInit

NextLQR ==
  \E t \in QThreads :
    \/ LockFreeQueueRecycle_enqueue(t)
    \/ LockFreeQueueRecycle_dequeue(t)

SpecLQR == InitLQR /\ [][NextLQR]_vars

\* The two queues with locks, under the same test.
InitLBQ ==
  /\ \E kind \in {"UnboundedQueue", "BoundedQueue"} : HarnessInit(kind, QThreads, QOps)
  /\ LocksInit

NextLBQ ==
  \E t \in QThreads :
    \/ UnboundedQueue_enqueue(t)
    \/ UnboundedQueue_dequeue(t)
    \/ BoundedQueue_enqueue(t)
    \/ BoundedQueue_dequeue(t)
    \/ BoundedQueue_condition(t)

SpecLBQ == InitLBQ /\ [][NextLBQ]_vars

InitBQ == HarnessInit("BoundedQueue", QThreads, QOps) /\ LocksInit

NextBQ ==
  \E t \in QThreads :
    \/ BoundedQueue_enqueue(t)
    \/ BoundedQueue_dequeue(t)
    \/ BoundedQueue_condition(t)

SpecBQ == InitBQ /\ [][NextBQ]_vars

\* Every thread that can take a step eventually takes one.
SpecBQFair ==
  /\ InitBQ /\ [][NextBQ]_vars
  /\ \A t \in QThreads :
       WF_vars(\/ BoundedQueue_enqueue(t)
               \/ BoundedQueue_dequeue(t)
               \/ BoundedQueue_condition(t))

InitSQ == HarnessInit("SynchronousQueue", SQThreads, QOps) /\ LocksInit

NextSQ ==
  \E t \in SQThreads :
    \/ SynchronousQueue_enqueue(t)
    \/ SynchronousQueue_dequeue(t)
    \/ SynchronousQueue_condition(t)

SpecSQ == InitSQ /\ [][NextSQ]_vars

InitES == HarnessInit("EliminationBackoffStack", ESThreads, ESOps) /\ LocksInit

NextES ==
  \E t \in ESThreads :
    \/ EliminationBackoffStack_push(t)
    \/ EliminationBackoffStack_pop(t)
    \/ LockFreeExchanger_exchange(t)

SpecES == InitES /\ [][NextES]_vars

InitASP == HarnessInit("AtomicStampedPtr", ASPThreads, 1) /\ LocksInit

\* Every call bumps the stamp it expects by one, as the callers in the code do.
NextASP ==
  \E t \in ASPThreads :
    \/ AtomicStampedPtr_get(t)
    \/ \E expected_ptr, desired_ptr \in ASP_Ptrs, expected_stamp \in ASP_Stamps :
         AtomicStampedPtr_compare_and_swap(t, expected_ptr, desired_ptr, expected_stamp,
                                           (expected_stamp + 1) % 2^ASPStampBits)

SpecASP == InitASP /\ [][NextASP]_vars

InitHP == HarnessInit("HazardPtr", HPThreads, HPOps) /\ LocksInit

NextHP ==
  \E t \in HPThreads :
    \/ HazardPtr_register_thread(t)
    \/ HazardPtr_op_end(t)
    \/ \E ptr \in HP_Nodes :
         \/ HazardPtr_try_reserve(t, ptr)
         \/ HazardPtr_unreserve(t, ptr)
         \/ HazardPtr_sched_for_reclaim(t, ptr)

SpecHP == InitHP /\ [][NextHP]_vars

-----------------------------------------------------------------------------
(***************************************************************************)
(* The claims.                                                             *)
(***************************************************************************)

\* C2: under MCSLock at most one thread is in the critical section at any
\* time, and once all NumThreads threads have finished their NumIterations
\* lock / increment / unlock cycles the counter is NumThreads * NumIterations.
MCS_MutualExclusion ==
  /\ Cardinality({t \in Threads : InCS(t)}) <= 1
  /\ (\A t \in Threads : pc[t] = "done") => counter = NumThreads * NumIterations

\* Every thread has finished its cycles, and some acquisition queued behind
\* a predecessor.
MCS_Witness ==
  /\ \A t \in Threads : pc[t] = "done"
  /\ counter = NumThreads * NumIterations
  /\ \E t \in Threads : mcs_pred[t] # Null

\* Node n stands in the queue as the node of a thread that waits for or holds
\* the lock: its pred_ is null while it is the tail or another thread waits
\* on it.
TO_InUse(n) ==
  /\ to_pred[n] = Null
  /\ \/ to_tail = n
     \/ \E u \in Threads : pc[u] \in {"to_l35", "to_l42"} /\ to_my_pred[u] = n

\* C3: TOLock: at most one thread is between a try_lock that returned true
\* and its unlock; a thread whose try_lock returned false does not hold the
\* lock: it is not in the critical section, and the node it used neither
\* stands in the queue as a node in use nor is marked released.
TOLock_MutualExclusion ==
  /\ Cardinality({t \in Threads : InCS(t)}) <= 1
  /\ \A t \in Threads :
       (to_result[t] = "false" /\ pc[t] \in {"idle", "done"}) =>
         /\ ~TO_InUse(to_my_node[t])
         /\ to_pred[to_my_node[t]] # AVAILABLE

\* A thread has timed out and left its node in the queue, abandoned; the
\* thread that queued behind that node has skipped it and is in the critical
\* section.
TOLock_Witness ==
  \E a, b \in Threads :
    /\ to_result[b] = "false" /\ pc[b] \in {"idle", "done"}
    /\ to_pred[to_my_node[b]] \notin {Null, AVAILABLE}
    /\ InCS(a) /\ to_my_node[a] > to_my_node[b]
    /\ to_my_pred[a] = to_pred[to_my_node[b]]

Peterson_MutualExclusion ==
  ~(InCS(0) /\ InCS(1))

\* One thread is in the critical section while the other one has raised its
\* flag and waits as the victim.
Peterson_Witness ==
  \E id \in PetersonIds :
    /\ InCS(id) /\ iter[id] >= 1
    /\ pc[1 - id] = "pt_l13v" /\ pt_victim = 1 - id

\* C6: CLHLock, each thread taking over its predecessor's node after every
\* unlock: at most one thread is in the critical section, over repeated
\* acquisitions.
CLH_MutualExclusion ==
  \A a, b \in Threads : (InCS(a) /\ InCS(b)) => a = b

\* A thread is in the critical section on a node it took over from a
\* predecessor, with another thread queued behind it.
CLH_Witness ==
  \E a, b \in Threads :
    /\ InCS(a) /\ iter[a] >= 1 /\ clh_my_node[a] # a
    /\ pc[b] = "clh_l40" /\ clh_my_pred[b] = clh_my_node[a]

\* C7: ALock of capacity al_kSize >= number of threads: at most one thread is
\* in the critical section, also after the slot index has wrapped around.
ALock_MutualExclusion ==
  \A a, b \in Threads : (a # b /\ InCS(a)) => ~InCS(b)

\* After the slot index has wrapped around the ring, a thread is in the
\* critical section for the second time while another one waits on the slot
\* handed out last.
ALock_Witness ==
  \E a, b \in Threads :
    /\ al_tail > al_kSize
    /\ InCS(a) /\ iter[a] >= 1
    /\ pc[b] = "al_l27" /\ iter[b] >= 1 /\ al_slot[b] = (al_tail - 1) % al_kSize

\* C8: TicketLock, MCSLock, CLHLock: a thread that is in the critical section
\* is the one whose queue-entry step (ticket fetch_add, exchange on the
\* tail) is the oldest among the threads that have entered the queue and not
\* yet left the critical section.
FIFO_Order ==
  \A t \in Threads : InCS(t) => (fifo_queue # <<>> /\ Head(fifo_queue) = t)

\* Every thread has entered the queue while the first of them is in the
\* critical section.
FIFO_Witness ==
  /\ Len(fifo_queue) = NumThreads
  /\ InCS(Head(fifo_queue))
  /\ \A t \in Threads : iter[t] >= 1

\* C9: FilterLock is starvation-free under fair scheduling: no thread stays
\* inside lock(id) for ever (lock(id) is left only into the critical section,
\* so every thread that has called it eventually is in the critical section),
\* and every thread completes all its numIter critical sections.
Filter_InLock(id) == pc[id] \in {"fl_l15", "fl_l16", "fl_l22", "fl_l22v"}

Composite_Holding(t) == pc[t] \in {"cs", "cs_incr", "unlock"}

Composite_MutualExclusion ==
  lockKind = "Composite" =>
    \A a, b \in CompositeThreads :
      Composite_Holding(a) /\ Composite_Holding(b) => a = b

\* C10: for both read/write locks, no thread holds the write lock while
\* another thread holds the read lock or the write lock, and while a writer is
\* in its critical section has_writer is true and num_readers is 0.  A lock
\* is held from the return of read_lock / write_lock until read_unlock has
\* decremented num_readers / write_unlock has cleared has_writer.
RW_WriteHeld(t) == pc[t] \in {"cs", "cs_incr", "unlock", "wu_body"}
RW_ReadHeld(t) == pc[t] \in {"rcs", "ru_body"}

RW_Exclusion ==
  lockKind \in {"SimpleRW", "FIFORW"} =>
    \A w \in RWThreads :
      RW_WriteHeld(w) =>
        /\ \A t \in RWThreads \ {w} : ~RW_WriteHeld(t) /\ ~RW_ReadHeld(t)
        /\ rw_has_writer
        /\ rw_num_readers = 0

\* A writer is in its critical section, in its second iteration, while a
\* thread that has called read_lock meanwhile is blocked in wait.
RW_Witness ==
  \E w, r \in RWThreads :
    /\ pc[w] = "cs_incr" /\ iter[w] >= 1
    /\ pc[r] = "cv_l85" /\ cv_ret[r] = "rl_test" /\ iter[r] >= 1

RE_Quiet(t) == pc[t] \in {"idle", "done"}

RE_Held ==
  /\ \A a, b \in Threads : re_depth[a] > 0 /\ re_depth[b] > 0 => a = b
  /\ \A t \in Threads :
       RE_Quiet(t) =>
         IF re_depth[t] > 0
           THEN re_owner = t /\ re_hold_count = re_depth[t]
           ELSE re_owner = t => re_hold_count = 0
  /\ (\A t \in Threads : RE_Quiet(t) /\ re_depth[t] = 0) => re_hold_count = 0

RE_UnlockError ==
  /\ [][\A t \in Threads :
          /\ (pc[t] = "re_u29" /\ pc'[t] # "re_u29"
                /\ (re_hold_count = 0 \/ re_owner # t))
               => pc'[t] = "re_u30" /\ UNCHANGED <<re_owner, re_hold_count>>
          /\ (pc[t] = "re_u29" /\ pc'[t] = "re_u30")
               => re_hold_count = 0 \/ re_owner # t
          /\ (pc[t] = "re_u30" /\ pc'[t] # "re_u30")
               => re_threw'[t] /\ UNCHANGED <<re_owner, re_hold_count, re_depth>>]_vars
  /\ [](\A o \in Threads :
          re_depth[o] > 0 /\ RE_Quiet(o) =>
            re_owner = o /\ re_hold_count = re_depth[o])

\* An unlock() of a thread that does not own the lock has thrown while the
\* owner holds the lock, and the owner holds it still.
RE_UnlockErrorWitness ==
  \E o, t \in Threads :
    /\ o # t
    /\ re_threw[t] /\ re_depth[t] = 0 /\ RE_Quiet(t)
    /\ RE_Quiet(o) /\ re_depth[o] > 0 /\ re_owner = o /\ re_hold_count = re_depth[o]

\* Thread t is inside ConditionVariable::wait.
CV_Waiting(t) == pc[t] \in {"cv_l77", "cv_l82", "cv_l85", "cv_l93"}

\* C14: the ConditionVariable loses no wakeup.  A consumer that found the
\* queue empty while holding mutex_ and called wait(mutex_) does not stay
\* blocked once a producer has pushed under mutex_ and called notify_all:
\* again and again it is either out of wait or the queue is empty again.
CV_NoLostWakeup ==
  \A t \in Threads : []<>(~CV_Waiting(t) \/ cvt_queue = 0)

\* A consumer has put its signal on waiters_ and still holds mutex_, and a
\* notify_all that ran in between has already set that signal.
CV_NoLostWakeupWitness ==
  /\ lockKind = "CVTest"
  /\ \E t \in Threads :
       /\ pc[t] = "cv_l82"
       /\ cv_ret[t] = "cvt_pred"
       /\ cv_signal[t]

\* C15: a timed wait returns Timeout only when the waiter itself removed
\* its signal from waiters_; a waiter whose signal a notify_one or
\* notify_all has taken gets NoTimeout.
CV_TimeoutOnlyIfSelfRemoved ==
  \A t \in Threads : cv_status[t] = "Timeout" => cv_erased[t]

\* C16: the count of the Semaphore is never negative, and whenever no call
\* is inside mutex_ it equals the initial value plus the units given back
\* by the release calls that returned, less the units taken by the calls
\* that returned success; a try_acquire that returned false and a
\* try_acquire_for that timed out have therefore left it as it was.
Sem_Count ==
  lockKind = "Semaphore" =>
    /\ sem_value >= 0
    /\ ~ttas_state => sem_value = sem_init + sem_released - sem_acquired

\* One thread's try_acquire_for has timed out while the other held the last
\* unit, which has been given back since.
Sem_CountWitness ==
  /\ lockKind = "Semaphore"
  /\ ~ttas_state
  /\ sem_released > 0
  /\ sem_value = sem_init
  /\ \E t, u \in Threads : sem_result[t] = "timeout" /\ sem_result[u] = "true"

\* The answers of the calls that have returned are those of a set: a call
\* that reported its key present (contains true, add false, and any
\* successful update) ran over an instant at which the key was in the set,
\* one that reported it absent (contains false, remove false, and any
\* successful update) over an instant at which it was not; and whenever no
\* call is in progress, a key is in the set iff it was there at the start
\* or added, and the successful adds and removes of it balance.
LS_Linearizable ==
  /\ \A t \in DOMAIN pc :
       LS_Quiet(t) /\ ls_op[t] # "none" =>
         /\ (ls_op[t] = "add" \/ ls_ret[t]) => ls_in[t]
         /\ (ls_op[t] = "remove" \/ ls_ret[t] = (ls_op[t] = "add")) => ls_out[t]
  /\ (\A t \in DOMAIN pc : LS_Quiet(t)) =>
       \A k \in LS_Keys :
         (IF k \in LS_Abs THEN 1 ELSE 0) = (IF k <= LInitial THEN 1 ELSE 0) + ls_net[k]

Lazy_ContainsLinearizable ==
  \A t \in DOMAIN pc :
    lockKind = "LazyList" /\ LS_Quiet(t) /\ ls_op[t] = "contains" =>
      IF ls_ret[t] THEN ls_in[t] ELSE ls_out[t]

\* The nodes thread t holds the mutex_ of.
LS_Held(t) == {n \in LS_Nodes : ls_lock[n] = t}

\* C19: OptimisticList is linearizable as a set.  add and remove write to
\* the list only with pred and curr locked and pred reachable from head_
\* with pred.next == curr, so every answer is that of a set and the keys
\* present when no call is in progress are the initial ones plus the
\* successful adds less the successful removes.
Optimistic_Linearizable ==
  lockKind = "OptimisticList" =>
    /\ LS_Linearizable
    /\ \A t \in DOMAIN pc :
         pc[t] \in {"op_l69", "op_l102"} =>
           /\ LS_Held(t) = {ls_pred[t], ls_curr[t]}
           /\ ls_pred[t] \in LS_Chain(LS_Head, LS_GTail)
           /\ ls_next[ls_pred[t]] = ls_curr[t]

\* What holds of the node locks of FineList in every state: a thread to
\* which search has just returned holds the locks of pred and curr and no
\* other, with curr the node after pred and neither deleted; a thread
\* between two calls holds none.
Fine_Locks ==
  \A t \in DOMAIN pc :
    /\ pc[t] \in {"fn_l101", "fn_l132", "fn_l164"} =>
         /\ LS_Held(t) = {ls_pred[t], ls_curr[t]}
         /\ ls_pred[t] # ls_curr[t]
         /\ ls_next[ls_pred[t]] = ls_curr[t]
         /\ ~ls_marked[ls_pred[t]] /\ ~ls_marked[ls_curr[t]]
    /\ LS_Quiet(t) => LS_Held(t) = {}

\* C20: in FineList search returns with exactly pred and curr locked, every
\* add, remove and contains has released every lock by its return, whether
\* the key was found or not, and under fair scheduling the calls never
\* deadlock: every thread finishes all its calls.
Fine_LocksReleased ==
  /\ [](lockKind = "FineList" => Fine_Locks)
  /\ <>[](\A t \in DOMAIN pc : pc[t] = "done")

\* All calls are over and all locks free, after a remove that found its
\* key and a remove that did not.
Fine_Witness ==
  /\ lockKind = "FineList"
  /\ \A t \in ListThreads : pc[t] = "done"
  /\ \A n \in LS_Nodes : ls_lock[n] = Null
  /\ \E t, u \in ListThreads :
       /\ ls_op[t] = "remove" /\ ls_ret[t]
       /\ ls_op[u] = "remove" /\ ~ls_ret[u]

\* C21: on a list that holds no item, contains and remove return false and
\* add returns true, whatever the item, in every list class.
ListSet_EmptyAnswers ==
  bl_empty =>
    /\ bl_op \in {"contains", "remove"} => ~bl_ret
    /\ bl_op = "add" => bl_ret

\* What it takes for the calls of a queue to be linearizable at the steps
\* where the histories say they took effect: the values taken are the
\* first of the values put, in the same order (so none is taken twice),
\* the nodes after head_ hold exactly the values put and not yet taken, a
\* dequeue that has returned a value returned the one that was at the
\* front when it took effect, and a dequeue that has reported Empty ran
\* over an instant at which the queue held no item.
Q_Linearizable ==
  /\ Len(q_deq) <= Len(q_enq)
  /\ q_deq = SubSeq(q_enq, 1, Len(q_deq))
  /\ Q_Values(q_head, Q_MaxAlloc) = Q_Abs
  /\ \A t \in DOMAIN pc :
       Q_Quiet(t) /\ q_op[t] = "dequeue" =>
         IF q_ret[t] = Q_Empty THEN q_emp[t] ELSE q_ret[t] = q_taken[t]

\* C22: LockFreeQueue is linearizable as a FIFO queue.
LockFreeQueue_Linearizable == lockKind = "LockFreeQueue" => Q_Linearizable

\* Both threads are done; one dequeue found the queue empty although the
\* queue started with an item, and a value enqueued by a thread was taken.
LockFreeQueue_Witness ==
  /\ lockKind = "LockFreeQueue"
  /\ \A t \in QThreads : pc[t] = "done"
  /\ \E t \in QThreads : q_op[t] = "dequeue" /\ q_ret[t] = Q_Empty
  /\ \E i \in 1..Len(q_deq) : q_deq[i] > QInitial

\* The values of sequence seq, as a set.
Q_Range(seq) == {seq[i] : i \in 1..Len(seq)}

\* C23: in LockFreeQueueRecycle a dequeue returns the value that was in
\* the node it removed, and once all calls are over every value enqueued
\* has been returned by exactly one dequeue or is still in the queue.
Recycle_Conserves ==
  lockKind = "LockFreeQueueRecycle" =>
    /\ \A t \in DOMAIN pc :
         Q_Quiet(t) /\ q_op[t] = "dequeue" /\ q_ret[t] # Q_Empty => q_ret[t] = q_taken[t]
    /\ (\A t \in DOMAIN pc : Q_Quiet(t)) =>
         LET all == q_rets \o Q_Values(q_head, Q_MaxAlloc)
         IN  Len(all) = q_nval /\ Q_Range(all) = 1..q_nval

\* C24: UnboundedQueue and BoundedQueue hand every item enqueued to one
\* dequeue, in the order in which the enqueues took effect, and
\* UnboundedQueue::dequeue reports Empty only when it found head_->next_
\* null, the queue holding no item.
LockQueues_FIFO ==
  lockKind \in {"UnboundedQueue", "BoundedQueue"} =>
    /\ Q_Linearizable
    /\ \A i \in 1..Len(q_rets) : q_rets[i] \in Q_Range(q_deq)
    /\ Len(q_rets) <= Len(q_deq)

\* Two threads of the UnboundedQueue are done: the item the queue started
\* with and an item enqueued by a thread were dequeued, and a dequeue
\* found the queue empty.
LockQueues_Witness ==
  /\ lockKind = "UnboundedQueue"
  /\ \A t \in QThreads : pc[t] = "done"
  /\ Len(q_rets) >= 2
  /\ \E t \in QThreads : q_op[t] = "dequeue" /\ q_ret[t] = Q_Empty

\* C25: the items linked in the BoundedQueue and not yet dequeued are never
\* more than capacity_.
Bounded_Capacity ==
  lockKind = "BoundedQueue" => Len(Q_Values(q_head, Q_MaxAlloc)) <= BQCapacity

\* The queue is full and an enqueuer waits on not_full_condition_.
Bounded_CapacityWitness ==
  /\ lockKind = "BoundedQueue"
  /\ Len(Q_Values(q_head, Q_MaxAlloc)) = BQCapacity
  /\ \E t \in QThreads : pc[t] = "bq_w85" /\ q_loc[t].cv = "not_full"

\* Thread t spins in wait and no notifier has set its signal.
BQ_Blocked(t) == pc[t] = "bq_w85" /\ ~q_signal[t]

\* What thread t waits for holds: there is an item, or there is room.
BQ_Condition(t) ==
  IF q_loc[t].cv = "not_empty" THEN q_next[q_head] # Null ELSE q_size < BQCapacity

\* C26: under fair scheduling no thread of the BoundedQueue stays blocked
\* in wait while what it waits for holds.
Bounded_NoLostWakeup ==
  \A t \in QThreads : []<>(~(BQ_Blocked(t) /\ BQ_Condition(t)))

\* A waiter has been woken: its signal is set and what it waited for holds.
Bounded_NoLostWakeupWitness ==
  /\ lockKind = "BoundedQueue"
  /\ \E t \in QThreads :
       /\ pc[t] = "bq_w85" /\ q_signal[t]
       /\ BQ_Condition(t)

\* Thread t is an enqueuer between enqueuing_ = true and enqueuing_ = false.
SQ_Publishing(t) ==
  \/ pc[t] \in {"sq_l18", "sq_l20", "sq_l23"}
  \/ pc[t] \in {"sq_w77", "sq_w82", "sq_w85", "sq_w93", "sq_n56", "sq_n66"}
       /\ q_loc[t].ret = "sq_l20"

\* C27: in the SynchronousQueue at most one enqueuer is publishing and at
\* most one item is resident: every value stored in item_ is taken by a
\* dequeue before the next one is stored, and an enqueue that is past its
\* second loop or has returned had its value taken by a dequeue.
SynchronousQueue_Rendezvous ==
  lockKind = "SynchronousQueue" =>
    /\ Cardinality({t \in SQThreads : SQ_Publishing(t)}) <= 1
    /\ sq_enqueuing <=> \E t \in SQThreads : SQ_Publishing(t)
    /\ Len(sq_consumed) <= Len(sq_published)
    /\ Len(sq_published) <= Len(sq_consumed) + 1
    /\ sq_consumed = SubSeq(sq_published, 1, Len(sq_consumed))
    /\ sq_item = IF Len(sq_published) = Len(sq_consumed) THEN 0
                 ELSE sq_published[Len(sq_published)]
    /\ \A t \in SQThreads :
         /\ q_op[t] = "enqueue"
         /\ \/ pc[t] \in {"sq_l23", "sq_l25", "idle", "done"}
            \/ pc[t] \in {"sq_n56", "sq_n66"} /\ q_loc[t].ret = "sq_l25"
         => \E i \in 1..Len(sq_consumed) : sq_consumed[i] = IF Q_Quiet(t) THEN q_ret[t] ELSE q_loc[t].value

\* A second enqueuer waits in the loop of line 14 while the first is
\* publishing, and an enqueue has returned after a dequeue took its value.
SynchronousQueue_Witness ==
  /\ lockKind = "SynchronousQueue"
  /\ Len(sq_consumed) >= 1
  /\ \E t, u \in SQThreads :
       /\ t # u
       /\ SQ_Publishing(t)
       /\ q_op[u] = "enqueue" /\ pc[u] = "sq_w85" /\ q_loc[u].ret = "sq_l14"

\* The values of the nodes from node n down, in the order of the next_ pointers.
RECURSIVE ES_Values(_, _)
ES_Values(n, fuel) ==
  IF n = Null \/ fuel = 0 THEN <<>>
  ELSE <<es_value[n]>> \o ES_Values(es_next[n], fuel - 1)

ES_Reverse(seq) == [i \in 1..Len(seq) |-> seq[Len(seq) + 1 - i]]

ES_NoDuplicates(seq) == \A i, j \in 1..Len(seq) : seq[i] = seq[j] => i = j

ES_Range(seq) == {seq[i] : i \in 1..Len(seq)}

\* C28: the EliminationBackoffStack is linearizable as a LIFO stack.  With
\* every push and pop taking effect at its successful CAS on top_ and a
\* push and a pop that meet in an exchanger taking effect together, the
\* push first: the nodes from top_ down are the stack these effects built,
\* every pop returns what that stack gave it, no value is pushed or popped
\* twice, and what was pushed is what was popped plus what remains.
ES_Linearizable ==
  lockKind = "EliminationBackoffStack" =>
    /\ ES_Values(es_top, ES_MaxAlloc) = ES_Reverse(es_abs)
    /\ ES_NoDuplicates(es_pushed) /\ ES_NoDuplicates(es_popped) /\ ES_NoDuplicates(es_rets)
    /\ ES_Range(es_popped) \subseteq ES_Range(es_pushed)
    /\ ES_Range(es_rets) \subseteq ES_Range(es_popped)
    /\ ES_Range(es_abs) = ES_Range(es_pushed) \ ES_Range(es_popped)
    /\ Len(es_pushed) = Len(es_popped) + Len(es_abs)
    /\ \A t \in ESThreads :
         /\ es_op[t] = "pop" /\ pc[t] \in {"idle", "done"} => es_ret[t] = es_taken[t]
         /\ es_op[t] = "push" /\ pc[t] \in {"idle", "done"} => es_ret[t] \in ES_Range(es_pushed)
         /\ es_op[t] = "push" /\ pc[t] \in {"es_l177", "es_l179"}
              => es_loc[t].value \notin ES_Range(es_pushed)

\* A push and a pop have met in an exchanger and both have returned, the
\* pop with the value of the push, while a third thread changed top_.
ES_Witness ==
  /\ lockKind = "EliminationBackoffStack"
  /\ \A t \in ESThreads : pc[t] = "done"
  /\ \E t, u \in ESThreads :
       /\ es_op[t] = "push" /\ es_op[u] = "pop"
       /\ ex_result[t] = "item" /\ ex_result[u] = "item"
       /\ es_ret[u] = es_ret[t]
       /\ es_ret[t] \notin ES_Range(ES_Values(es_top, ES_MaxAlloc))

\* The slot of the exchanger thread t is in.
EX_Slot(t) == es_slot[es_loc[t].slot]

\* C29: a publisher of the LockFreeExchanger whose wait has expired throws
\* TimeoutException iff its CAS from WAITING to EMPTY succeeds, which it
\* does iff no partner has met it; a publisher that a partner has met never
\* ends with a timeout: it returns the item the partner brought and leaves
\* the slot EMPTY.
Exchanger_TimeoutIffWithdrawn ==
  /\ [](lockKind = "EliminationBackoffStack" =>
         \A t \in ESThreads :
           /\ ex_result[t] = "timeout" => ~ex_paired[t]
           /\ pc[t] \in {"ex_l43", "ex_l52", "ex_l53"} =>
                /\ ex_paired[t]
                /\ EX_Slot(t) = [ptr |-> ex_given[t], stamp |-> BUSY])
  /\ [][\A t \in ESThreads :
          /\ pc[t] = "ex_l47" /\ pc'[t] # "ex_l47" =>
               /\ ex_result'[t] = "timeout" <=> EX_Slot(t) = [ptr |-> es_loc[t].my_item,
                                                                stamp |-> WAITING]
               /\ ex_result'[t] = "timeout" <=> ~ex_paired[t]
               /\ ex_result'[t] # "timeout" => pc'[t] = "ex_l52"
          /\ pc[t] \in {"ex_l43", "ex_l53"} /\ pc'[t] # pc[t] =>
               /\ ex_result'[t] = "item"
               /\ es_loc'[t].other_node = ex_given[t]
               /\ es_slot'[es_loc[t].slot] = [ptr |-> Null, stamp |-> EMPTY]]_vars

\* A publisher whose wait expired without its having seen BUSY lost the CAS
\* of line 47 to a partner and has returned the item of the partner.
Exchanger_Witness ==
  /\ lockKind = "EliminationBackoffStack"
  /\ \E t \in ESThreads :
       /\ pc[t] \in {"es_l144", "es_l166"}
       /\ ex_result[t] = "item" /\ ex_paired[t]
       /\ es_loc[t].stamp # BUSY
       /\ es_loc[t].other_node = ex_given[t]

\* C30: compare_and_swap on an AtomicStampedPtr succeeds iff the pointer
\* and the stamp it holds both equal the expected pair; a call that fails
\* leaves the value as it was and one that succeeds stores the desired
\* pair; a call that expects the pair (A, s) a thread has read, after two
\* successful calls took the value from A to another pointer and back to
\* A, fails and leaves (A, s + 2).
AtomicStampedPtr_CAS ==
  lockKind = "AtomicStampedPtr" /\ asp_last.thread # 0 =>
    /\ asp_last.ok <=> /\ asp_last.old_ptr = asp_last.expected_ptr
                       /\ asp_last.old_stamp = asp_last.expected_stamp
    /\ ~asp_last.ok => /\ asp_last.new_ptr = asp_last.old_ptr
                       /\ asp_last.new_stamp = asp_last.old_stamp
    /\ asp_last.ok => /\ asp_last.new_ptr = asp_last.desired_ptr
                      /\ asp_last.new_stamp = asp_last.desired_stamp
    /\ asp_last.observed /\ asp_last.updates = 2 =>
         /\ ~asp_last.ok
         /\ asp_last.new_stamp = (asp_last.expected_stamp + 2) % 2^ASPStampBits
         /\ asp_last.old_ptr = asp_last.expected_ptr
              => asp_last.new_ptr = asp_last.expected_ptr

\* The value went from A to another pointer and back to A since the thread
\* read (A, s), and its compare_and_swap expecting (A, s) has failed.
AtomicStampedPtr_Witness ==
  /\ lockKind = "AtomicStampedPtr"
  /\ asp_last.thread # 0
  /\ asp_last.observed /\ asp_last.updates = 2
  /\ asp_last.old_ptr = asp_last.expected_ptr
  /\ ~asp_last.ok
  /\ asp_ptr = asp_last.expected_ptr
  /\ asp_stamp = (asp_last.expected_stamp + 2) % 2^ASPStampBits

\* C39: size_ of the BoundedQueue never wraps around below zero and never
\* exceeds capacity_.
Bounded_SizeInRange ==
  lockKind = "BoundedQueue" => q_size <= BQCapacity

\* The nodes reached from node n by the next_ pointers, n included.
RECURSIVE Q_Reach(_, _)
Q_Reach(n, fuel) ==
  IF n = Null \/ fuel = 0 THEN {} ELSE {n} \cup Q_Reach(q_next[n], fuel - 1)

\* C40: in the LockFreeQueueRecycle no node is at the same time reachable
\* from head_ and in the stack of unused nodes of the pool, and the CAS on
\* last->next_ of an enqueue (line 102) succeeds only on a node that is
\* reachable from head_ and not in the pool.
Recycle_NodesApart ==
  /\ [](lockKind = "LockFreeQueueRecycle" =>
         Q_Reach(q_head, Q_MaxAlloc) \cap Q_Reach(q_pool, Q_MaxAlloc) = {})
  /\ [][\A t \in QThreads :
          pc[t] = "lqr_l102" /\ Len(q_enq') > Len(q_enq) =>
            /\ q_loc[t].last \in Q_Reach(q_head, Q_MaxAlloc)
            /\ q_loc[t].last \notin Q_Reach(q_pool, Q_MaxAlloc)]_vars

\* The moves of the stamp of a slot_ that exchange makes.
EX_Moves == {<<EMPTY, WAITING>>, <<WAITING, BUSY>>, <<BUSY, EMPTY>>, <<WAITING, EMPTY>>}

\* C33: an exchange of the LockFreeExchanger pairs two threads, the partner
\* receiving the item of the publisher that is still waiting and that no
\* other partner has met; the stamp of a slot only moves EMPTY->WAITING,
\* WAITING->BUSY, BUSY->EMPTY or WAITING->EMPTY; a push of the stack
\* returns through the exchanger only when a pop took its value there, that
\* value never being on the central stack, and a push that met a push is
\* back in its loop with its value not pushed.
Exchanger_Pairs ==
  /\ [](lockKind = "EliminationBackoffStack" =>
         /\ ES_NoDuplicates(es_pushed) /\ ES_NoDuplicates(es_popped)
         /\ \A t \in ESThreads :
              es_op[t] = "push" /\ pc[t] = "es_l144" /\ es_loc[t].other_node # Null =>
                es_loc[t].value \notin ES_Range(es_pushed))
  /\ [][/\ \A i \in DOMAIN es_slot :
            es_slot'[i].stamp # es_slot[i].stamp =>
              <<es_slot[i].stamp, es_slot'[i].stamp>> \in EX_Moves
        /\ \A t \in ESThreads :
            /\ pc[t] = "ex_l59" /\ ex_result'[t] = "item" =>
                 LET o == es_owner[es_loc[t].slot] IN
                   /\ o # t /\ pc[o] \in {"ex_l36", "ex_l37", "ex_l47"}
                   /\ ~ex_paired[o] /\ ex_paired'[o]
                   /\ es_loc'[t].other_node = es_loc[o].my_item
                   /\ ex_given'[o] = es_loc[t].my_item
            /\ pc[t] = "es_l144" /\ pc'[t] \in {"idle", "done"} =>
                 LET v == es_loc[t].value IN
                   /\ v \in ES_Range(es_popped)
                   /\ v \notin ES_Range(ES_Values(es_top, ES_MaxAlloc))
                   /\ \/ v \in ES_Range(es_rets)
                      \/ \E u \in ESThreads \ {t} :
                           /\ es_op[u] = "pop" /\ pc[u] \notin {"idle", "done"}
                           /\ es_taken[u] = v]_vars

\* Two pushes have met in an exchanger: the partner holds the node of the
\* publisher and is about to try again.
Exchanger_PairsWitness ==
  /\ lockKind = "EliminationBackoffStack"
  /\ \E t, u \in ESThreads :
       /\ t # u /\ es_op[t] = "push" /\ es_op[u] = "push"
       /\ pc[t] = "es_l144" /\ es_loc[t].other_node = es_loc[u].node
       /\ ex_paired[u] /\ ex_given[u] = es_loc[t].node

\* Thread u has exchanged itself into tail_ behind thread t and has not yet
\* stored itself in the next_ of t.
MCS_Unlinked(u, t) == pc[u] \in {"mcs_l21", "mcs_l24"} /\ mcs_pred[u] = t

\* C32: no hand-off of the MCSLock is lost.  When the holder runs the CAS
\* of unlock while a successor has exchanged itself into tail_ and not yet
\* written next_, the CAS fails; the holder waits for next_ and wakes that
\* very successor, which is spinning on its flag; under fair scheduling
\* every thread gets the lock every time it asks, so all threads finish.
MCS_NoLostHandoff ==
  /\ [][\A t \in Threads :
          pc[t] = "mcs_u40" /\ pc'[t] # "mcs_u40"
          /\ (\E u \in Threads : MCS_Unlinked(u, t))
          => pc'[t] = "mcs_u47"]_vars
  /\ [](lockKind = "MCS" =>
         \A t \in Threads :
           pc[t] = "mcs_u50" =>
             /\ mcs_pred[mcs_succ[t]] = t
             /\ pc[mcs_succ[t]] = "mcs_l27"
             /\ mcs_locked[mcs_succ[t]])
  /\ <>[](\A t \in Threads : pc[t] = "done")

\* The holder failed the CAS of unlock and waits for the next_ that its
\* successor has not written yet.
MCS_HandoffWitness ==
  /\ lockKind = "MCS"
  /\ \E t, u \in Threads : pc[t] = "mcs_u47" /\ mcs_next[t] = Null /\ MCS_Unlinked(u, t)


\* Node n was abandoned: its owner timed out and stored its predecessor.
TO_Abandoned(n) == to_pred[n] \notin {Null, AVAILABLE}

\* The nearest node at or before n that is not abandoned.
RECURSIVE TO_Nearest(_)
TO_Nearest(n) == IF TO_Abandoned(n) THEN TO_Nearest(to_pred[n]) ELSE n

\* Thread t waits in try_lock.
TO_Waiting(t) == pc[t] \in {"to_l35", "to_l42"}

\* C36: TOLock: a waiter that meets an abandoned node either runs out of
\* time itself or takes that node's pred as its predecessor and keeps
\* waiting; the nearest non-abandoned node before a waiter is released or
\* belongs to a thread that waits, holds the lock, unlocks or is giving up,
\* and no two waiters share it; with fair scheduling no thread waits
\* forever, whichever threads time out.
TOLock_SkipsAbandoned ==
  /\ [][\A t \in Threads :
          /\ pc[t] = "to_l42" /\ TO_Abandoned(to_my_pred[t])
          /\ (pc'[t] # pc[t] \/ to_my_pred'[t] # to_my_pred[t])
          => \/ pc'[t] = "to_l61" /\ to_my_pred'[t] = to_my_pred[t]
             \/ pc'[t] = "to_l42" /\ to_my_pred'[t] = to_pred[to_my_pred[t]]]_vars
  /\ [](lockKind = "TOLock" =>
        \A t \in Threads :
          TO_Waiting(t) =>
            LET n == TO_Nearest(to_my_pred[t]) IN
              /\ \/ to_pred[n] = AVAILABLE
                 \/ \E u \in Threads \ {t} :
                      /\ to_my_node[u] = n
                      /\ pc[u] \in {"to_l35", "to_l42", "to_l61", "to_l64", "cs",
                                    "cs_incr", "unlock", "to_u80"}
              /\ \A u \in Threads \ {t} :
                   TO_Waiting(u) => TO_Nearest(to_my_pred[u]) # n)
  /\ <>[](\A t \in Threads : pc[t] \in {"idle", "done"})

\* A thread waits behind an abandoned node whose owner has returned false.
TOLock_SkipWitness ==
  \E a, b \in Threads :
    /\ pc[a] = "to_l42" /\ to_my_pred[a] = to_my_node[b]
    /\ TO_Abandoned(to_my_node[b]) /\ to_result[b] = "false"

\* C38: every signal of the ConditionVariable is freed only after the last
\* access to it: a signal that a notifier has taken from waiters_ and not
\* yet stored to has not been freed by its waiter, so no pointer that a
\* notifier holds dangles.
CV_NoStoreAfterFree ==
  \A n \in Threads :
    \A i \in DOMAIN cv_to_notify[n] : cv_to_notify[n][i] > 0

\* Signal t is on waiters_.
CV_Registered(t) == \E i \in DOMAIN cv_waiters : cv_waiters[i] = t

\* The notifiers that hold a pointer to signal t.
CV_Holders(t) ==
  {n \in DOMAIN pc : \E i \in DOMAIN cv_to_notify[n] : cv_to_notify[n][i] = t}

\* C37: notify_one wakes exactly one waiter when there is one, the one that
\* registered first, and does nothing otherwise.  wait registers at the back
\* of waiters_; notify_one takes the front of waiters_, leaves the others on
\* it in their order, and sets the signal of the one it took and no other;
\* with waiters_ empty it changes neither waiters_ nor any signal.  So a
\* waiter is at any time in exactly one of three conditions: registered and
\* not signalled, taken by exactly one notifier and not yet signalled, or
\* signalled; and a notifier between its two steps holds exactly one signal.
CV_NotifyOne ==
  /\ [](lockKind = "CVOne" =>
        /\ \A n \in DOMAIN pc :
             Len(cv_to_notify[n]) = IF pc[n] = "cv_l47" THEN 1 ELSE 0
        /\ \A t \in DOMAIN pc :
             IF pc[t] \in {"cv_l82", "cv_l85"}
               THEN \/ CV_Registered(t) /\ ~cv_signal[t] /\ CV_Holders(t) = {}
                    \/ /\ ~CV_Registered(t) /\ ~cv_signal[t]
                       /\ Cardinality(CV_Holders(t)) = 1
                    \/ ~CV_Registered(t) /\ cv_signal[t] /\ CV_Holders(t) = {}
               ELSE ~CV_Registered(t) /\ ~cv_signal[t] /\ CV_Holders(t) = {})
  /\ [][\A n \in DOMAIN pc :
          /\ pc[n] = "cv_l77" /\ pc'[n] # "cv_l77"
               => cv_waiters' = Append(cv_waiters, n)
          /\ pc[n] = "cv_l38" /\ pc'[n] # "cv_l38"
               => /\ cv_signal' = cv_signal
                  /\ IF cv_waiters = <<>>
                       THEN cv_waiters' = <<>> /\ cv_to_notify' = cv_to_notify
                       ELSE /\ cv_to_notify'[n] = <<cv_waiters[1]>>
                            /\ cv_waiters' = Tail(cv_waiters)
          /\ pc[n] = "cv_l47" /\ pc'[n] # "cv_l47"
               => /\ cv_signal' = [cv_signal EXCEPT ![cv_to_notify[n][1]] = TRUE]
                  /\ cv_waiters' = cv_waiters]_vars

\* Two threads wait; a notify_one has woken one of them and returned, the
\* other is still registered and blocked.
CV_NotifyOneWitness ==
  /\ lockKind = "CVOne"
  /\ \E a, b, n \in DOMAIN pc :
       /\ pc[a] = "cv_l85" /\ cv_signal[a]
       /\ pc[b] = "cv_l85" /\ ~cv_signal[b] /\ cv_waiters = <<b>>
       /\ pc[n] = "done" /\ cv_ret[n] = "idle" /\ n \notin {a, b}

\* The slots that stand in the queue: the tail and, behind every ABORTED
\* slot of the queue, the slot its pred_ names.
RECURSIVE CL_Queue(_, _)
CL_Queue(n, fuel) ==
  IF n = Null \/ fuel = 0 THEN {}
  ELSE {n} \cup IF cl_state[n] = "ABORTED" THEN CL_Queue(cl_pred[n], fuel - 1) ELSE {}

\* No thread is inside try_lock, in the critical section or in unlock.
CL_Quiescent == \A t \in CompositeThreads : pc[t] \in {"idle", "done"}

\* C35: CompositeLock: a slot that its last user left RELEASED or ABORTED
\* can be reclaimed by a later try_lock.  Whenever all acquisitions so far
\* have completed or timed out, every slot is FREE, or it is RELEASED or
\* ABORTED and stands in the queue, where the thread that picks the tail
\* slot swings tail_ past it; so a new try_lock can still succeed, also
\* with a single slot.
Composite_TailReclaimed ==
  lockKind = "Composite" /\ CL_Quiescent =>
    \A n \in 1..cl_kSize :
      \/ cl_state[n] = "FREE"
      \/ /\ cl_state[n] \in {"RELEASED", "ABORTED"}
         /\ n \in CL_Queue(cl_tail[1], CLSize)

\* Thread t takes a step.
HP_Step(t) == pc'[t] # pc[t] \/ hp_loc'[t] # hp_loc[t]

\* Thread t is inside op_end.
HP_InOpEnd(t) == pc[t] \in {"hp_l111", "hp_l115", "hp_l137", "hp_l118"}

RECURSIVE LF_Garbage(_, _)
LF_Garbage(n, fuel) ==
  IF n = Null \/ fuel = 0 THEN {}
  ELSE {n} \cup LF_Garbage(ls_next_deleted[n], fuel - 1)

\* The threads that have unlinked node n and are about to call add_to_garbage.
LF_Pushing(n) ==
  {t \in ListThreads : pc[t] \in {"lf_l240", "lf_l173"} /\ ls_curr[t] = n}

\* C34: LockFreeList: find does not walk past a marked node: it tries to
\* unlink it, whoever marked it; next_ pointers change only by the link of
\* add and by unlinking; an unlink takes out exactly one node, curr, which
\* is marked, from an unmarked pred; so an unmarked node stays linked, and
\* a marked node is linked, or in the hands of the one thread that unlinked
\* it and will push it onto the garbage list, or on the garbage list, and
\* never two of these: each removed node is pushed once.
LockFree_Unlink ==
  /\ [](lockKind = "LockFreeList" =>
        \A n \in 1..ls_nalloc :
          LET linked == n \in LS_Chain(LS_Head, LS_GTail)
              dumped == n \in LF_Garbage(ls_garbage, LS_GTail) IN
            IF ls_marked[n]
              THEN (IF linked THEN 1 ELSE 0) + Cardinality(LF_Pushing(n))
                     + (IF dumped THEN 1 ELSE 0) = 1
              ELSE linked /\ LF_Pushing(n) = {} /\ ~dumped)
  /\ [][\A t \in ListThreads :
          /\ pc[t] \in {"lf_l235", "lf_l168"} /\ pc'[t] # pc[t] /\ ls_next' # ls_next =>
               /\ ls_marked[ls_curr[t]] /\ ~ls_marked[ls_pred[t]]
               /\ ls_next[ls_pred[t]] = ls_curr[t]
               /\ ls_next' = [ls_next EXCEPT ![ls_pred[t]] = ls_next[ls_curr[t]]]
          /\ /\ pc[t] = "lf_l228" /\ ls_marked[ls_curr[t]]
             /\ (pc'[t] # pc[t] \/ ls_curr'[t] # ls_curr[t])
             => /\ pc'[t] = "lf_l235"
                /\ ls_pred'[t] = ls_pred[t] /\ ls_curr'[t] = ls_curr[t]]_vars
  /\ [][ls_next' # ls_next =>
          \E t \in ListThreads :
            pc[t] \in {"lf_l235", "lf_l168", "lf_l120"} /\ pc'[t] # pc[t]]_vars

\* A remove has marked its node and returned true without unlinking it, and
\* the find of another thread has unlinked that node since and is about to
\* push it onto the garbage list.
LockFree_UnlinkWitness ==
  /\ lockKind = "LockFreeList"
  /\ \E t, u \in ListThreads :
       /\ t # u
       /\ pc[u] = "lf_l240" /\ ls_marked[ls_curr[u]]
       /\ LS_Quiet(t) /\ ls_op[t] = "remove" /\ ls_ret[t]
       /\ ls_k[t] = ls_key[ls_curr[u]]
=============================================================================
